---------------------------- MODULE Spec2Model ----------------------------
(***************************************************************************)
(* Verification model of the sleep-code relay daemon.                      *)
(*                                                                         *)
(*   - SessionManager (src/src/slack/session-manager.ts, lines 1-645):     *)
(*     the socket server, the session table, the permission tables, the    *)
(*     message de-duplication and the JSONL tailer.                        *)
(*   - ProcessManager (src/src/shared/pty-output-parser.ts, lines          *)
(*     171-737): the process registry, kill, health check.                 *)
(*   - The Discord adapter's handlers (src/unnamed/part_006,               *)
(*     src/src/discord/interactions/permissions.ts).                       *)
(*                                                                         *)
(* Five specifications share the module's variables; each leaves the       *)
(* variables of the other parts unchanged:                                 *)
(*   Spec      the socket server and the session table                     *)
(*   SpecPerm  the permission arbitration, with the sessions               *)
(*   SpecDedup one session object's message de-duplication                 *)
(*   SpecReg   the process registry                                        *)
(*   SpecTail  the byte-level JSONL tailer                                 *)
(***************************************************************************)
EXTENDS Integers, Sequences, FiniteSets, TLC

(***************************************************************************)
(* Bounds of the model.                                                    *)
(***************************************************************************)
NumRegSessions == 1      \* session ids the registry part ranges over
NumConns == 2            \* connections to the daemon socket
NumSessions == 2         \* session ids the socket server sees
NumRequests == 2         \* permission request ids
NumPostRequests == 1     \* request ids followed through the adapter's handler
MaxStarts == 2           \* session_start frames received
MaxArrivals == 5         \* candidate messages one session object receives
MaxPermStarts == 1       \* session_start frames received while permissions run
NumPermSessions == 1     \* session ids the permission requests name
NumQuestions == 2        \* sub-questions of an AskUserQuestion tool call
MaxAnswers == 3          \* answers the user gives to posted questions
MaxRecords == 3          \* records Claude Code appends to one event log
NumToolUses == 2         \* tool_use ids in one event log
MaxInputs == 2           \* sendInput calls
TickMs == 50             \* milliseconds one step of the clock advances
NumStartSessions == 2    \* start selections, and the session ids they generate
MaxVersions == 2         \* versions of a document saved after the first
DocChunks == 2           \* write() calls one writeFile needs for a document
MaxAttempts == 5         \* sockets one DaemonConnection creates
MaxConcurrentSessions == 1  \* settings.maxConcurrentSessions

VARIABLES
    \* ---- ProcessManager (registry part) ----
    entries,                \* registry.entries, by session id
    alive,                  \* alive[i]: the runner process of session i exists
    reconcilingSessionIds,  \* ProcessManager.reconcilingSessionIds
    killCall,               \* position of the kill() call in flight, by session id
    startCall,              \* position of the adapter's session-start handler
    recon,                  \* position of runStartupReconciliation
    stopMenu,               \* session ids the open '/claude stop' menu offers
    sent,                   \* signals sent by the last step: <<pid, signal>>
    live,                   \* session ids in the Hub's table of live sessions
    statusCallbacks,        \* onStatusChange calls of the last step:
                            \* <<session id, oldStatus, entry.status>>
    \* ---- SessionManager (tailer part) ----
    file,                   \* the bytes of the session's JSONL event log
    lastProcessedSize,      \* session.lastProcessedSize
    tailPc,                 \* position of the tailer: unbound, idle, reading
    readLines,              \* the lines the last read handed to hash()
    startSize,              \* the offset session_start gave the session
    handedOn,               \* every line a read has handed to hash() so far
    \* ---- SessionManager (socket server, sessions, permissions) ----
    conn,                   \* conn[c]: "open" or "closed"
    sessions,               \* this.sessions, a Map in insertion order
    objs,                   \* the session_start frames received so far, and
                            \* how far the handler of each has got
    watching,               \* session objects started watching and not stopped
    nEnd,                   \* nEnd[id]: events.onSessionEnd(id) calls so far
    pendingPermissions,     \* this.pendingPermissions: request id -> socket
    pendingAskUserQuestions,\* this.pendingAskUserQuestions: session -> request
    \* ---- Discord adapter ----
    statePending,           \* state.pendingPermissions: request id -> session
    posting,                \* requests whose sendToThread() is in flight
    yoloSessions,           \* state.yoloSessions
    reqlog,                 \* per request id: what arrived and what was written
    \* ---- Discord adapter (structured questions) ----
    pendingQuestions,       \* state.pendingQuestions: tool-use id -> session
    pendingAnswers,         \* state.pendingAnswers: tool-use id, index -> answer
    trying,                 \* answer handlers that stored an answer and await
                            \* the edit of the message, by tool-use id
    submitted,              \* tool-use ids whose answers were handed to the Hub
    nAnswers,               \* answers given so far
    \* ---- SessionManager (the event stream of one session id) ----
    jsonl,                  \* the records of the session's event log, in order
    tailers,                \* the session objects created for the session id:
                            \* lastProcessedSize, seenMessages,
                            \* seenMessagesOrder, processing
    tailing,                \* session objects whose watcher has not been closed
    inSessions,             \* the session object in this.sessions, or 0
    out,                    \* events handed to the adapter for the session id
    \* ---- SessionManager (sendInput) ----
    frames,                 \* frames[c]: the frames written to connection c
    calls,                  \* the sendInput calls that returned true: socket,
                            \* text, the frames written, the timer and the
                            \* milliseconds it has waited
    \* ---- SessionManager (message de-duplication of one session object) ----
    seenMessages,           \* session.seenMessages
    seenMessagesOrder,      \* session.seenMessagesOrder
    arrived,                \* per message key: candidates that arrived, by source
    emitted,                \* per message key: events.onMessage calls
    evicted,                \* per message key: times the LRU cleanup dropped it
    sessionStatus,          \* session.status
    statusCalls,            \* events.onSessionStatus calls of the last line
    \* ---- handleStartDirSelect (start selections in flight) ----
    startSelect,            \* position of the start selection that generates session id i
    \* ---- saveRegistry, saveMappings, saveSettings (the JSON documents on disk) ----
    disk,                   \* per file: the chunks of the document in the file
    saving,                 \* per file: the writeFile in flight, 0 or the version it writes
    \* ---- DaemonConnection of the runner (cli/run.ts) ----
    closed,                 \* DaemonConnection.closed
    connected,              \* DaemonConnection.connected
    socket,                 \* DaemonConnection.socket: 0 (null) or the number of a socket
    reconnectTimer,         \* DaemonConnection.reconnectTimer is set
    reconnectInterval,      \* DaemonConnection.reconnectInterval, in ms
    sockState,              \* per socket created: connecting, open, ending or closed
    nSessionStart,          \* session_start frames written
    crashed                 \* the runner ended on an uncaught exception

regVars == <<entries, alive, reconcilingSessionIds, killCall, startCall, recon,
            stopMenu, sent, live, statusCallbacks>>

tailVars == <<file, lastProcessedSize, tailPc, readLines, startSize, handedOn>>

hubVars == <<conn, sessions, objs, watching, nEnd, pendingPermissions,
            pendingAskUserQuestions, statePending, posting, yoloSessions, reqlog>>

askVars == <<pendingQuestions, pendingAnswers, trying, submitted, nAnswers>>

orderVars == <<jsonl, tailers, tailing, inSessions, out>>

inputVars == <<frames, calls>>

dedupVars == <<seenMessages, seenMessagesOrder, arrived, emitted, evicted,
               sessionStatus, statusCalls>>

startVars == <<startSelect>>

saveVars == <<disk, saving>>

runVars == <<closed, connected, socket, reconnectTimer, reconnectInterval, sockState, nSessionStart, crashed>>

vars == <<regVars, tailVars, hubVars, askVars, orderVars, inputVars, dedupVars,
           startVars,
           saveVars,
           runVars>>

\* What the steps of one part leave alone.
outsideReg == <<tailVars, hubVars, askVars, orderVars, inputVars, dedupVars,
                 startVars,
                 saveVars,
                 runVars>>
outsideTail == <<regVars, hubVars, askVars, orderVars, inputVars, dedupVars,
                  startVars,
                  saveVars,
                  runVars>>
outsideHub == <<regVars, tailVars, askVars, orderVars, inputVars, dedupVars,
                 startVars,
                 saveVars,
                 runVars>>
outsideDedup == <<regVars, tailVars, hubVars, askVars, orderVars, inputVars,
                   startVars,
                   saveVars,
                   runVars>>
outsideAsk == <<regVars, tailVars, orderVars, inputVars, dedupVars,
                 startVars,
                 saveVars,
                 runVars>>
outsideOrder == <<regVars, tailVars, hubVars, askVars, inputVars, dedupVars,
                   startVars,
                   saveVars,
                   runVars>>
outsideInput == <<regVars, tailVars, askVars, orderVars, dedupVars,
                   startVars,
                   saveVars,
                   runVars>>
outsideStart == <<regVars, tailVars, hubVars, askVars, orderVars, inputVars,
                    dedupVars,
                   saveVars,
                   runVars>>
outsideRegStart == <<tailVars, hubVars, askVars, orderVars, inputVars, dedupVars,
                      saveVars,
                      runVars>>
outsideSave == <<regVars, tailVars, hubVars, askVars, orderVars, inputVars,
                   dedupVars, startVars,
                  runVars>>
outsideRun == <<regVars, tailVars, hubVars, askVars, orderVars, inputVars,
                  dedupVars, startVars, saveVars>>

(***************************************************************************)
(*                              REGISTRY PART                              *)
(***************************************************************************)
RegIds == 1..NumRegSessions

\* ProcessEntry['status'], plus "absent" for an id with no entry.
TerminalStatus == {"stopped", "orphaned"}
NonTerminalStatus == {"starting", "running", "stopping"}

\* An id that has no entry in registry.entries.
Absent == [status |-> "absent", pid |-> 0, threadId |-> FALSE, age |-> 0]

\* age of an entry, from its startedAt: 0 = at most 30 s, 1 = more than 30 s,
\* 2 = 24 h or more.
AgeOver30s == 1
AgeOver24h == 2

\* The pid the operating system gave the runner of session i is i; an entry
\* records it, or 0 when the pid is unknown.
isProcessAlive(pid) == IF pid = 0 THEN FALSE ELSE alive[pid]

\* process.kill(pid, sig) throws ESRCH when no such process exists; pid 0
\* addresses the daemon's own process group and does not throw.
killThrowsESRCH(pid) == pid # 0 /\ ~alive[pid]

updateStatus(es, id, status) ==
    IF es[id].status # "absent" THEN [es EXCEPT ![id].status = status] ELSE es

setThreadId(es, id) ==
    IF es[id].status # "absent" THEN [es EXCEPT ![id].threadId = TRUE] ELSE es

removeEntry(es, id) == [es EXCEPT ![id] = Absent]

onSessionConnectedFound(es, id) ==
    id \notin reconcilingSessionIds /\ es[id].status # "absent"

onSessionConnected(es, id) ==
    IF id \in reconcilingSessionIds THEN es
    ELSE IF es[id].status \in {"starting", "orphaned"}
         THEN [es EXCEPT ![id].status = "running"]
         ELSE es

addManualSession(es, id, pid) ==
    IF es[id].status # "absent" THEN es
    ELSE [es EXCEPT ![id] = [status |-> "running", pid |-> pid,
                             threadId |-> FALSE, age |-> 0]]

\* healthStatus with a running entry whose process is dead marked stopped.
healthStatusDeadRunningStopped(e) ==
    LET a == isProcessAlive(e.pid) IN
    CASE e.status = "starting" ->
            IF ~a THEN "stopped"
            ELSE IF e.age >= AgeOver30s THEN "orphaned" ELSE "starting"
      [] e.status = "running"  -> IF ~a THEN "stopped" ELSE "running"
      [] e.status = "stopping" -> IF ~a THEN "stopped" ELSE "stopping"
      [] OTHER -> e.status

\* First loop of runHealthCheck: the status one entry leaves the loop with.
healthStatus(e) ==
    LET a == isProcessAlive(e.pid) IN
    CASE e.status = "starting" ->
            IF ~a THEN "stopped"
            ELSE IF e.age >= AgeOver30s THEN "orphaned" ELSE "starting"
      [] e.status = "running"  -> IF ~a THEN "orphaned" ELSE "running"
      [] e.status = "stopping" -> IF ~a THEN "stopped" ELSE "stopping"
      [] OTHER -> e.status

\* autoCleaned without the test of the policy flag.
autoCleanedWhateverThePolicy(e, shouldAutoCleanup) ==
    healthStatus(e) = "orphaned" /\ isProcessAlive(e.pid)

\* Second loop of runHealthCheck: orphaned and still alive is killed.
autoCleaned(e, shouldAutoCleanup) ==
    shouldAutoCleanup /\ healthStatus(e) = "orphaned" /\ isProcessAlive(e.pid)

\* Third step of runHealthCheck: the retention filter.
pruned(status, e) == status \in TerminalStatus /\ e.age >= AgeOver24h

runHealthCheck(es, shouldAutoCleanup) ==
    [id \in RegIds |->
        LET e == es[id]
            s1 == healthStatus(e)
            s2 == IF autoCleaned(e, shouldAutoCleanup) THEN "stopped" ELSE s1
        IN IF e.status = "absent" \/ pruned(s2, e) THEN Absent
           ELSE [e EXCEPT !.status = s2]]

getAllRunning(es) ==
    {id \in DOMAIN es : es[id].status \in {"running", "starting"}}

getDeadSessionsNeedingNotification(es) ==
    {id \in RegIds : es[id].status \in TerminalStatus /\ es[id].threadId}

------------------------------------------------------------------------------
\* The state of a part while another part's specification runs.
RegParked ==
    /\ entries = [id \in RegIds |-> Absent]
    /\ alive = [id \in RegIds |-> FALSE]
    /\ reconcilingSessionIds = {}
    /\ killCall = [id \in RegIds |->
                      [pc |-> "idle", detached |-> FALSE, oldStatus |-> "none"]]
    /\ startCall = [id \in RegIds |-> "idle"]
    /\ recon = [pc |-> "init", todo |-> {}, dead |-> {}]
    /\ stopMenu = {}
    /\ sent = {}
    /\ live = {}
    /\ statusCallbacks = {}

TailParked ==
    /\ file = <<>>
    /\ lastProcessedSize = 0
    /\ tailPc = "unbound"
    /\ readLines = <<>>
    /\ startSize = 0
    /\ handedOn = {}

Conns == 1..NumConns
SessionIds == 1..NumSessions
ReqIds == 1..NumRequests
PostReqIds == 1..NumPostRequests
PermSessionIds == 1..NumPermSessions

\* A request id no permission_request frame has carried yet.
NoRequest ==
    [conn |-> 0, sid |-> 0, tool |-> "none", yolo |-> FALSE, nResp |-> 0,
     to |-> 0, behavior |-> "none", ui |-> FALSE, notified |-> FALSE,
     ended |-> FALSE, late |-> FALSE, again |-> FALSE, message |-> "none",
     settled |-> "none", answers |-> [k \in {"null"} |-> ""]]

\* The tool-use id of the AskUserQuestion call that request r asks about:
\* the model numbers a request and its tool call alike.
ToolUseIds == ReqIds
QuestionIndexes == 0..(NumQuestions - 1)
OptionLabels == {"A", "B"}
NoAnswer == ""

\* i.toString() for a question index.
toString(i) ==
    CASE i = 0 -> "0" [] i = 1 -> "1" [] i = 2 -> "2" [] OTHER -> "3"

AnswerKeys == {toString(i) : i \in QuestionIndexes}

AskParked ==
    /\ pendingQuestions = [t \in ToolUseIds |-> 0]
    /\ pendingAnswers = [t \in ToolUseIds |-> [i \in QuestionIndexes |-> NoAnswer]]
    /\ trying = [t \in ToolUseIds |-> 0]
    /\ submitted = {}
    /\ nAnswers = 0

OrderParked ==
    /\ jsonl = <<>>
    /\ tailers = <<>>
    /\ tailing = {}
    /\ inSessions = 0
    /\ out = <<>>

InputParked ==
    /\ frames = [c \in Conns |-> <<>>]
    /\ calls = <<>>

HubParked ==
    /\ AskParked
    /\ OrderParked
    /\ InputParked
    /\ conn = [c \in Conns |-> "open"]
    /\ sessions = <<>>
    /\ objs = <<>>
    /\ watching = {}
    /\ nEnd = [id \in SessionIds |-> 0]
    /\ pendingPermissions = [r \in ReqIds |-> 0]
    /\ pendingAskUserQuestions = [id \in SessionIds |-> 0]
    /\ statePending = [r \in ReqIds |-> 0]
    /\ posting = {}
    /\ yoloSessions = {}
    /\ reqlog = [r \in ReqIds |-> NoRequest]

\* MAX_SEEN_MESSAGES and the length of the hashed prefix, scaled down.
MAX_SEEN_MESSAGES == 2
KeyPrefixLen == 2

\* String.trim() and String.slice(0, n) on a sequence of characters.
RECURSIVE Trim(_)
Trim(str) ==
    IF str = <<>> THEN <<>>
    ELSE IF Head(str) = " " THEN Trim(Tail(str))
    ELSE IF str[Len(str)] = " " THEN Trim(SubSeq(str, 1, Len(str) - 1))
    ELSE str

Slice(str, n) == SubSeq(str, 1, IF Len(str) < n THEN Len(str) ELSE n)

\* hash(data): md5, taken to be free of collisions.
hash(data) == <<"md5", data>>

\* `pty:${session.id}:${hash(content.slice(0, 100))}` of a trimmed text; the
\* session id is that of the one session object this part follows.
contentKey(trimmed) == <<"pty", hash(Slice(trimmed, KeyPrefixLen))>>

\* Message texts that arrive, and the JSONL lines that carry them: record 1
\* is a user record and record 2 an assistant record, each with every text
\* and timestamp (old: the record's timestamp is earlier than
\* session.startedAt).
Texts ==
    {<<"a", "b">>, <<"a", "b", "c">>, <<" ", "a", "b">>, <<"c">>, <<" ">>}
LineTexts == {<<"a", "b">>, <<"a", "b", "c">>, <<"c">>}
Lines == [uuid : {1}, role : {"user"}, text : LineTexts, old : BOOLEAN]
         \cup [uuid : {2}, role : {"assistant"}, text : LineTexts, old : BOOLEAN]
MessageKeys == {contentKey(Trim(t)) : t \in Texts}

DedupParked ==
    /\ seenMessages = {}
    /\ seenMessagesOrder = <<>>
    /\ arrived = [k \in MessageKeys |-> [pty |-> 0, log |-> 0]]
    /\ emitted = [k \in MessageKeys |-> 0]
    /\ evicted = [k \in MessageKeys |-> 0]
    /\ sessionStatus = "running"
    /\ statusCalls = <<>>

\* REGISTRY_FILE, MAPPINGS_FILE and SETTINGS_FILE, and the text of version v
\* of a document as the chunks writeFile writes it in.
SavedFiles == {"registry", "mappings", "settings"}
document(v) == [i \in 1..DocChunks |-> v]
CompleteDocuments == {document(v) : v \in 0..MaxVersions}

\* Every file holds the document an earlier run has saved.
SaveParked ==
    /\ disk = [f \in SavedFiles |-> document(0)]
    /\ saving = [f \in SavedFiles |-> 0]

\* The DaemonConnection after its constructor.
RECONNECT_INTERVAL == 2000
MAX_RECONNECT_INTERVAL == 30000
Sockets == 1..MaxAttempts

RunParked ==
    /\ closed = FALSE
    /\ connected = FALSE
    /\ socket = 0
    /\ reconnectTimer = FALSE
    /\ reconnectInterval = RECONNECT_INTERVAL
    /\ sockState = <<>>
    /\ nSessionStart = 0
    /\ crashed = FALSE

StartIds == 1..NumStartSessions

StartParked == startSelect = [id \in StartIds |-> "idle"]

\* Entries a run can load from the registry file.
LoadedEntries ==
    {Absent} \cup
    [status : {"running", "stopped", "orphaned"}, pid : {0}, threadId : {TRUE},
     age : {AgeOver30s}]

IdleKill == [pc |-> "idle", detached |-> FALSE, oldStatus |-> "none"]

RegInit ==
    /\ entries \in [RegIds -> LoadedEntries]
    /\ alive \in [RegIds -> BOOLEAN]
    /\ \A id \in RegIds : entries[id].status = "absent" => ~alive[id]
    /\ reconcilingSessionIds = {}
    /\ killCall = [id \in RegIds |-> IdleKill]
    /\ startCall = [id \in RegIds |-> "idle"]
    /\ recon = [pc |-> "init", todo |-> {}, dead |-> {}]
    /\ stopMenu = {}
    /\ sent = {}
    /\ live = {}
    /\ statusCallbacks = {}
    /\ TailParked
    /\ HubParked
    /\ DedupParked
    /\ StartParked
    /\ SaveParked
    /\ RunParked

\* ProcessManager.spawn: a fresh session id (generateSessionId, a random
\* UUID that nothing refers to yet) gets a 'starting' entry; the pid is the
\* child's (background) or 0 (terminal app).
Spawn(id, background) ==
    /\ entries[id].status = "absent"
    /\ ~alive[id]
    /\ id \notin reconcilingSessionIds \cup stopMenu \cup live
    /\ killCall[id].pc = "idle"
    /\ startCall[id] = "idle"
    /\ entries' = [entries EXCEPT ![id] =
                      [status |-> "starting", pid |-> IF background THEN id ELSE 0,
                       threadId |-> FALSE, age |-> 0]]
    /\ alive' = [alive EXCEPT ![id] = TRUE]
    /\ UNCHANGED <<reconcilingSessionIds, killCall, startCall, recon, stopMenu>>
    /\ UNCHANGED outsideReg
    /\ UNCHANGED live
    /\ sent' = {}
    /\ statusCallbacks' = {}

\* A runner is started outside the daemon (sleep-code run -- claude).
RunnerStarts(id) ==
    /\ ~alive[id]
    /\ entries[id].status = "absent"
    /\ alive' = [alive EXCEPT ![id] = TRUE]
    /\ UNCHANGED <<entries, reconcilingSessionIds, killCall, startCall, recon, stopMenu>>
    /\ UNCHANGED outsideReg
    /\ UNCHANGED live
    /\ sent' = {}
    /\ statusCallbacks' = {}

\* The runner process of a session exits (by itself or after a signal).
ProcessDies(id) ==
    /\ alive[id]
    /\ alive' = [alive EXCEPT ![id] = FALSE]
    /\ UNCHANGED <<entries, reconcilingSessionIds, killCall, startCall, recon, stopMenu>>
    /\ UNCHANGED outsideReg
    /\ UNCHANGED live
    /\ sent' = {}
    /\ statusCallbacks' = {}

\* Time passes for one entry.
Tick(id) ==
    /\ entries[id].status # "absent"
    /\ entries[id].age < AgeOver24h
    /\ entries' = [entries EXCEPT ![id].age = @ + 1]
    /\ UNCHANGED <<alive, reconcilingSessionIds, killCall, startCall, recon, stopMenu>>
    /\ UNCHANGED outsideReg
    /\ UNCHANGED live
    /\ sent' = {}
    /\ statusCallbacks' = {}

\* createSessionStartHandler, up to channelManager.createSession: the runner
\* of id has connected and sent session_start with the pid it reports; the
\* Hub has put the session in its table.
RegSessionStart(id, pid) ==
    /\ alive[id]
    /\ startCall[id] = "idle"
    /\ entries' = IF onSessionConnectedFound(entries, id)
                  THEN onSessionConnected(entries, id)
                  ELSE addManualSession(onSessionConnected(entries, id), id, pid)
    /\ startCall' = [startCall EXCEPT ![id] = "createSession"]
    /\ live' = live \cup {id}
    /\ statusCallbacks' =
          IF /\ onSessionConnectedFound(entries, id)
             /\ entries[id].status \in {"starting", "orphaned"}
          THEN {<<id, entries[id].status, "running">>} ELSE {}
    /\ UNCHANGED <<alive, reconcilingSessionIds, killCall, recon, stopMenu>>
    /\ UNCHANGED outsideReg
    /\ sent' = {}

\* createSessionStartHandler, after channelManager.createSession returned a
\* mapping (hasMapping) or null.
RegSessionStartThread(id, hasMapping) ==
    /\ startCall[id] = "createSession"
    /\ entries' = IF hasMapping THEN setThreadId(entries, id) ELSE entries
    /\ startCall' = [startCall EXCEPT ![id] = "idle"]
    /\ UNCHANGED <<alive, reconcilingSessionIds, killCall, recon, stopMenu>>
    /\ UNCHANGED outsideReg
    /\ UNCHANGED live
    /\ sent' = {}
    /\ statusCallbacks' = {}

\* createSessionEndHandler, called when the Hub drops a session from its
\* table: processManager.updateStatus(sessionId, 'stopped').
RegSessionEnd(id) ==
    /\ id \in live
    /\ live' = live \ {id}
    /\ entries' = updateStatus(entries, id, "stopped")
    /\ statusCallbacks' =
          IF entries[id].status \notin {"absent", "stopped"}
          THEN {<<id, entries[id].status, "stopped">>} ELSE {}
    /\ UNCHANGED <<alive, reconcilingSessionIds, killCall, startCall, recon, stopMenu>>
    /\ UNCHANGED outsideReg
    /\ sent' = {}

\* kill(), lines 342-350: look the entry up, mark it 'stopping', save.
killBegin(es, id) == [es EXCEPT ![id].status = "stopping"]

\* '/claude stop': the menu lists the sessions running now
\* (commands/claude.ts); the user picks from it later.
StopMenuShow ==
    /\ getAllRunning(entries) # {}
    /\ stopMenu' = getAllRunning(entries)
    /\ UNCHANGED <<entries, alive, reconcilingSessionIds, killCall, startCall, recon>>
    /\ UNCHANGED outsideReg
    /\ UNCHANGED live
    /\ sent' = {}
    /\ statusCallbacks' = {}

\* handleStopSessionSelect: the user picks id from the menu; kill(id) starts.
KillBegin(id) ==
    /\ id \in stopMenu
    /\ entries[id].status # "absent"
    /\ killCall[id].pc = "idle"
    /\ killCall' = [killCall EXCEPT ![id] =
                      [pc |-> "saved", detached |-> FALSE,
                       oldStatus |-> entries[id].status]]
    /\ entries' = killBegin(entries, id)
    /\ UNCHANGED <<alive, reconcilingSessionIds, startCall, recon, stopMenu>>
    /\ UNCHANGED outsideReg
    /\ UNCHANGED live
    /\ sent' = {}
    /\ statusCallbacks' = {}

\* The entry object kill() holds is still the one in registry.entries.
killHolds(id) == ~killCall[id].detached /\ entries[id].status # "absent"

\* kill()'s write of 'stopped' through the entry object it holds.
killStopped(id) ==
    IF killHolds(id) THEN [entries EXCEPT ![id].status = "stopped"] ELSE entries

\* kill(), lines 373-375: onStatusChange(entry, oldStatus) after the write of
\* 'stopped'; the catch block for ESRCH does not call it.
killCallback(id) == {<<id, killCall[id].oldStatus, "stopped">>}

\* kill(), lines 352-358: the first signal; force is kill()'s parameter, which
\* nothing reads before this point.
KillSignal(id, force) ==
    /\ killCall[id].pc = "saved"
    /\ LET pid == entries[id].pid
           sig == IF force THEN "SIGKILL" ELSE "SIGINT" IN
       IF killHolds(id) /\ ~killThrowsESRCH(pid)
       THEN /\ sent' = {<<pid, sig>>}
            /\ IF force
               THEN /\ entries' = killStopped(id)
                    /\ killCall' = [killCall EXCEPT ![id] = IdleKill]
                    /\ statusCallbacks' = killCallback(id)
               ELSE /\ entries' = entries
                    /\ killCall' = [killCall EXCEPT ![id].pc = "waitInt"]
                    /\ statusCallbacks' = {}
       ELSE \* ESRCH: the catch block marks the entry stopped
            /\ sent' = {}
            /\ entries' = killStopped(id)
            /\ killCall' = [killCall EXCEPT ![id] = IdleKill]
            /\ statusCallbacks' = {}
    /\ UNCHANGED <<alive, reconcilingSessionIds, startCall, recon, stopMenu>>
    /\ UNCHANGED outsideReg
    /\ UNCHANGED live

\* kill(), lines 358-363: waitForDeath(5000) has returned.
KillAfterInt(id) ==
    /\ killCall[id].pc = "waitInt"
    /\ LET pid == entries[id].pid IN
       IF killHolds(id) /\ isProcessAlive(pid)
       THEN /\ sent' = {<<pid, "SIGTERM">>}
            /\ killCall' = [killCall EXCEPT ![id].pc = "waitTerm"]
            /\ entries' = entries
            /\ statusCallbacks' = {}
       ELSE /\ sent' = {}
            /\ entries' = killStopped(id)
            /\ killCall' = [killCall EXCEPT ![id] = IdleKill]
            /\ statusCallbacks' = killCallback(id)
    /\ UNCHANGED <<alive, reconcilingSessionIds, startCall, recon, stopMenu>>
    /\ UNCHANGED outsideReg
    /\ UNCHANGED live

\* kill(), lines 365-371: waitForDeath(3000) has returned.
KillAfterTerm(id) ==
    /\ killCall[id].pc = "waitTerm"
    /\ LET pid == entries[id].pid IN
       /\ sent' = IF killHolds(id) /\ isProcessAlive(pid)
                  THEN {<<pid, "SIGKILL">>} ELSE {}
       /\ entries' = killStopped(id)
       /\ killCall' = [killCall EXCEPT ![id] = IdleKill]
       /\ statusCallbacks' = killCallback(id)
    /\ UNCHANGED <<alive, reconcilingSessionIds, startCall, recon, stopMenu>>
    /\ UNCHANGED outsideReg
    /\ UNCHANGED live

\* One pass of runHealthCheck (it awaits nothing before its final save).
RunHealthCheck(shouldAutoCleanup) ==
    /\ entries' = runHealthCheck(entries, shouldAutoCleanup)
    /\ sent' =
          {<<entries[id].pid, "SIGKILL">> :
              id \in {i \in RegIds : /\ entries[i].status # "absent"
                                     /\ autoCleaned(entries[i], shouldAutoCleanup)}}
    /\ statusCallbacks' =
          {<<id, entries[id].status, healthStatus(entries[id])>> :
              id \in {i \in RegIds : /\ entries[i].status # "absent"
                                     /\ healthStatus(entries[i]) # entries[i].status}}
    /\ killCall' = [id \in RegIds |->
                      IF killCall[id].pc # "idle" /\ entries'[id].status = "absent"
                      THEN [killCall[id] EXCEPT !.detached = TRUE]
                      ELSE killCall[id]]
    /\ UNCHANGED <<alive, reconcilingSessionIds, startCall, recon, stopMenu>>
    /\ UNCHANGED outsideReg
    /\ UNCHANGED live

\* runStartupReconciliation: collect the dead sessions and fence them.
ReconBegin ==
    /\ recon.pc = "init"
    /\ LET dead == getDeadSessionsNeedingNotification(entries) IN
       /\ recon' = [pc |-> IF dead = {} THEN "done" ELSE "running",
                    todo |-> dead, dead |-> dead]
       /\ reconcilingSessionIds' = reconcilingSessionIds \cup dead
    /\ UNCHANGED <<entries, alive, killCall, startCall, stopMenu>>
    /\ UNCHANGED outsideReg
    /\ UNCHANGED live
    /\ sent' = {}
    /\ statusCallbacks' = {}

\* runStartupReconciliation: one dead session notified and removed.
ReconEntry(id) ==
    /\ recon.pc = "running"
    /\ id \in recon.todo
    /\ entries' = removeEntry(entries, id)
    /\ recon' = [recon EXCEPT !.todo = @ \ {id}]
    /\ killCall' = [killCall EXCEPT ![id].detached = (killCall[id].pc # "idle")]
    /\ UNCHANGED <<alive, reconcilingSessionIds, startCall, stopMenu>>
    /\ UNCHANGED outsideReg
    /\ UNCHANGED live
    /\ sent' = {}
    /\ statusCallbacks' = {}

\* runStartupReconciliation: the finally block lifts the fence.
ReconEnd ==
    /\ recon.pc = "running"
    /\ recon.todo = {}
    /\ reconcilingSessionIds' = reconcilingSessionIds \ recon.dead
    /\ recon' = [recon EXCEPT !.pc = "done"]
    /\ UNCHANGED <<entries, alive, killCall, startCall, stopMenu>>
    /\ UNCHANGED outsideReg
    /\ UNCHANGED live
    /\ sent' = {}
    /\ statusCallbacks' = {}

RegNext ==
    \/ \E id \in RegIds, background \in BOOLEAN : Spawn(id, background)
    \/ \E id \in RegIds : RunnerStarts(id)
    \/ \E id \in RegIds : ProcessDies(id)
    \/ \E id \in RegIds : Tick(id)
    \/ \E id \in RegIds, pidKnown \in BOOLEAN :
          RegSessionStart(id, IF pidKnown THEN id ELSE 0)
    \/ \E id \in RegIds, hasMapping \in BOOLEAN : RegSessionStartThread(id, hasMapping)
    \/ \E id \in RegIds : RegSessionEnd(id)
    \/ StopMenuShow
    \/ \E id \in RegIds : KillBegin(id)
    \/ \E id \in RegIds, force \in BOOLEAN : KillSignal(id, force)
    \/ \E id \in RegIds : KillAfterInt(id)
    \/ \E id \in RegIds : KillAfterTerm(id)
    \/ \E shouldAutoCleanup \in BOOLEAN : RunHealthCheck(shouldAutoCleanup)
    \/ ReconBegin
    \/ \E id \in RegIds : ReconEntry(id)
    \/ ReconEnd

SpecReg == RegInit /\ [][RegNext]_vars

\* The registry a run loads at start: the file is saved after every change,
\* so an entry can be in the file with any status, pid and age.
RegistryFiles ==
    {es \in [RegIds -> {Absent} \cup
                        [status : NonTerminalStatus \cup TerminalStatus,
                         pid : {0} \cup RegIds, threadId : {TRUE},
                         age : 0..AgeOver24h]] :
        \A id \in RegIds : es[id].pid \in {0, id}}

HealthInit ==
    /\ entries \in RegistryFiles
    /\ alive \in [RegIds -> BOOLEAN]
    /\ \A id \in RegIds : entries[id].status = "absent" => ~alive[id]
    /\ reconcilingSessionIds = {}
    /\ killCall = [id \in RegIds |-> IdleKill]
    /\ startCall = [id \in RegIds |-> "idle"]
    /\ recon = [pc |-> "done", todo |-> {}, dead |-> {}]
    /\ stopMenu = {}
    /\ sent = {}
    /\ live = {}
    /\ statusCallbacks = {}
    /\ TailParked
    /\ HubParked
    /\ DedupParked
    /\ StartParked
    /\ SaveParked
    /\ RunParked

\* The health check at work: processes die, time passes, sessions connect
\* and end, and the periodic pass runs.
HealthNext ==
    \/ \E id \in RegIds : ProcessDies(id)
    \/ \E id \in RegIds : Tick(id)
    \/ \E id \in RegIds, pidKnown \in BOOLEAN :
          RegSessionStart(id, IF pidKnown THEN id ELSE 0)
    \/ \E id \in RegIds, hasMapping \in BOOLEAN : RegSessionStartThread(id, hasMapping)
    \/ \E id \in RegIds : RegSessionEnd(id)
    \/ \E shouldAutoCleanup \in BOOLEAN : RunHealthCheck(shouldAutoCleanup)

SpecHealth == HealthInit /\ [][HealthNext]_vars

\* The registry and the start selections of a daemon that starts with an
\* empty registry file and has finished its startup reconciliation.
StartInit ==
    /\ entries = [id \in StartIds |-> Absent]
    /\ alive = [id \in StartIds |-> FALSE]
    /\ reconcilingSessionIds = {}
    /\ killCall = [id \in StartIds |-> IdleKill]
    /\ startCall = [id \in StartIds |-> "idle"]
    /\ recon = [pc |-> "done", todo |-> {}, dead |-> {}]
    /\ stopMenu = {}
    /\ sent = {}
    /\ live = {}
    /\ statusCallbacks = {}
    /\ StartParked
    /\ SaveParked
    /\ RunParked
    /\ TailParked
    /\ HubParked
    /\ DedupParked

\* The limit test of handleStartDirSelect: getMaxSessions() is set and
\* getAllRunning() has reached it.
limitReached(es) == Cardinality(getAllRunning(es)) >= MaxConcurrentSessions

\* handleStartDirSelect up to its await interaction.update: the directory
\* is allowed; at the limit the selection is refused, else the session id
\* is generated and the "Starting..." message is on its way.
StartSelectCheck(id) ==
    /\ startSelect[id] = "idle"
    /\ startSelect' = [startSelect EXCEPT ![id] =
                          IF limitReached(entries) THEN "refused"
                          ELSE "updating"]
    /\ UNCHANGED regVars
    /\ UNCHANGED outsideStart

\* handleStartDirSelect after interaction.update resolved:
\* processManager.spawn(cwd, sessionId, terminalApp) starts the runner and
\* pushes its 'starting' entry.
StartSelectSpawn(id, background) ==
    /\ startSelect[id] = "updating"
    /\ startSelect' = [startSelect EXCEPT ![id] = "spawned"]
    /\ entries' = [entries EXCEPT ![id] =
                      [status |-> "starting", pid |-> IF background THEN id ELSE 0,
                       threadId |-> FALSE, age |-> 0]]
    /\ alive' = [alive EXCEPT ![id] = TRUE]
    /\ sent' = {}
    /\ statusCallbacks' = {}
    /\ UNCHANGED <<reconcilingSessionIds, killCall, startCall, recon, stopMenu,
                   live>>
    /\ UNCHANGED outsideRegStart

\* The runner of a spawned session connects.
StartRunnerConnects(id, pid) ==
    /\ entries[id].status = "starting"
    /\ RegSessionStart(id, pid)

\* Start selections, the runners they start, and the end of their sessions.
StartNext ==
    \/ \E id \in StartIds : StartSelectCheck(id)
    \/ \E id \in StartIds, background \in BOOLEAN : StartSelectSpawn(id, background)
    \/ \E id \in StartIds, pidKnown \in BOOLEAN :
          StartRunnerConnects(id, IF pidKnown THEN id ELSE 0)
    \/ \E id \in StartIds, hasMapping \in BOOLEAN :
          RegSessionStartThread(id, hasMapping)
    \/ \E id \in StartIds : RegSessionEnd(id)
    \/ \E id \in StartIds : ProcessDies(id)

SpecStart == StartInit /\ [][StartNext]_vars

------------------------------------------------------------------------------
\* C5: within one run, once a registry entry's status is stopped, no
\* operation (session connect, set-status, kill, health-check pass,
\* manual-session add) changes it to a non-terminal status.
C5_StoppedNeverLeavesTerminal ==
    [][\A id \in RegIds :
          entries[id].status = "stopped" =>
              entries'[id].status \notin NonTerminalStatus]_vars

\* The order of the statuses along starting -> running <-> idle -> stopping
\* -> stopped, with orphaned beside stopped.
C6Rank(s) ==
    CASE s = "starting" -> 0
      [] s \in {"running", "idle"} -> 1
      [] s = "stopping" -> 2
      [] OTHER -> 3

C6StepAllowed(e, f) ==
    \/ e.status = "absent" \/ f.status = "absent"
    \/ f.status = e.status
    \/ /\ f.status = "orphaned"
       /\ e.status \in NonTerminalStatus
       /\ ~isProcessAlive(e.pid)
    \/ /\ f.status # "orphaned"
       /\ C6Rank(e.status) <= C6Rank(f.status)

\* C6: a session's status only moves forward along starting -> running ->
\* (idle <-> running) -> stopping -> stopped; orphaned is entered only when
\* a liveness check fails; no step moves a session back to an earlier status.
C6_StatusMovesForward ==
    [][\A id \in RegIds : C6StepAllowed(entries[id], entries'[id])]_vars


(***************************************************************************)
(*                               TAILER PART                               *)
(* One session binding's JSONL tailer, at the level of bytes.  The bytes   *)
(* of the file are "x" (an ASCII byte other than newline), "n" (0x0A),     *)
(* "h" (the lead byte of a two-byte UTF-8 sequence) and "t" (a             *)
(* continuation byte).  The characters of a decoded string are "x", "n",   *)
(* "W" (a two-byte character) and "F" (U+FFFD, which toString('utf-8')     *)
(* puts in place of every byte that is not part of a complete sequence).   *)
(***************************************************************************)
MaxFileLen == 6          \* bytes the writer appends to the event log

Min(a, b) == IF a < b THEN a ELSE b
Max(a, b) == IF a > b THEN a ELSE b

\* Buffer.subarray(start): a negative start counts from the end.
Subarray(buf, start) ==
    LET from == IF start < 0 THEN Max(Len(buf) + start, 0) ELSE Min(start, Len(buf))
    IN SubSeq(buf, from + 1, Len(buf))

\* Buffer.toString('utf-8').
RECURSIVE Decode(_)
Decode(b) ==
    IF b = <<>> THEN <<>>
    ELSE IF Head(b) = "h"
         THEN IF Len(b) >= 2 /\ b[2] = "t"
              THEN <<"W">> \o Decode(SubSeq(b, 3, Len(b)))
              ELSE <<"F">> \o Decode(Tail(b))
         ELSE IF Head(b) = "t"
              THEN <<"F">> \o Decode(Tail(b))
              ELSE <<Head(b)>> \o Decode(Tail(b))

\* Buffer.byteLength(str, 'utf-8'): U+FFFD encodes as three bytes.
RECURSIVE ByteLength(_)
ByteLength(str) ==
    IF str = <<>> THEN 0
    ELSE (CASE Head(str) = "W" -> 2
            [] Head(str) = "F" -> 3
            [] OTHER -> 1) + ByteLength(Tail(str))

\* String.split('\n').
RECURSIVE Split(_)
Split(str) ==
    IF \A i \in 1..Len(str) : str[i] # "n" THEN <<str>>
    ELSE LET i == CHOOSE k \in 1..Len(str) :
                     str[k] = "n" /\ \A j \in 1..(k - 1) : str[j] # "n"
         IN <<SubSeq(str, 1, i - 1)>> \o Split(SubSeq(str, i + 1, Len(str)))

\* processJsonl, lines 421-434, on the buffer readFile returned: the new
\* offset and the lines handed on.
tailParts(buffer, offset) == Split(Decode(Subarray(buffer, offset)))

tailLastPart(buffer, offset) ==
    LET parts == tailParts(buffer, offset) IN parts[Len(parts)]

tailOffset(buffer, offset) ==
    IF Len(buffer) <= offset THEN offset
    ELSE Len(buffer) - ByteLength(tailLastPart(buffer, offset))

tailLines(buffer, offset) ==
    IF Len(buffer) <= offset THEN <<>>
    ELSE LET parts == tailParts(buffer, offset)
             nonEmpty(l) == l # <<>>
         IN SelectSeq(SubSeq(parts, 1, Len(parts) - 1), nonEmpty)

TailInit ==
    /\ TailParked
    /\ RegParked
    /\ HubParked
    /\ DedupParked
    /\ StartParked
    /\ SaveParked
    /\ RunParked

\* Claude Code appends one more byte of well-formed UTF-8 text to the log.
AppendByte(b) ==
    /\ Len(file) < MaxFileLen
    /\ IF file # <<>> /\ file[Len(file)] = "h" THEN b = "t" ELSE b # "t"
    /\ file' = Append(file, b)
    /\ UNCHANGED <<lastProcessedSize, tailPc, readLines, startSize, handedOn>>
    /\ UNCHANGED outsideTail

\* session_start, lines 212-219: the offset starts at the size stat() reports
\* (0 for a file that does not exist yet, which has no bytes).
TailStat ==
    /\ tailPc = "unbound"
    /\ lastProcessedSize' = Len(file)
    /\ startSize' = Len(file)
    /\ tailPc' = "idle"
    /\ UNCHANGED <<file, readLines, handedOn>>
    /\ UNCHANGED outsideTail

\* processJsonl, lines 413-417: a watcher event or the 2 s poll finds no read
\* in progress, sets session.processing and starts readFile.
TailBegin ==
    /\ tailPc = "idle"
    /\ tailPc' = "reading"
    /\ UNCHANGED <<file, lastProcessedSize, readLines, startSize, handedOn>>
    /\ UNCHANGED outsideTail

\* processJsonl, lines 417-590: readFile returns the file as it is now; the
\* rest of the call runs without a further await on the file.
TailRead ==
    /\ tailPc = "reading"
    /\ lastProcessedSize' = tailOffset(file, lastProcessedSize)
    /\ readLines' = tailLines(file, lastProcessedSize)
    /\ handedOn' = handedOn \cup
                      {tailLines(file, lastProcessedSize)[i] :
                          i \in 1..Len(tailLines(file, lastProcessedSize))}
    /\ tailPc' = "idle"
    /\ UNCHANGED <<file, startSize>>
    /\ UNCHANGED outsideTail

TailNext ==
    \/ \E b \in {"x", "n", "h", "t"} : AppendByte(b)
    \/ TailStat
    \/ TailBegin
    \/ TailRead

SpecTail == TailInit /\ [][TailNext]_vars

------------------------------------------------------------------------------
\* C7: the saved event-log offset of a session never decreases and never
\* exceeds the file's length.
C7_OffsetMonotoneWithinFile ==
    [][/\ lastProcessedSize' >= lastProcessedSize
       /\ lastProcessedSize' <= Len(file')]_vars

\* The byte offset o is the start of a line of the file.
AtLineStart(o) == o = 0 \/ (o \in 1..Len(file) /\ file[o] = "n")

\* The newline-terminated lines of the whole file.
CompleteLines ==
    LET parts == Split(Decode(file))
    IN {parts[i] : i \in 1..(Len(parts) - 1)}

\* C8: a read that starts at the start of a line leaves the offset at the
\* start of a line (never past an incomplete trailing line), and every line
\* it hashes is a complete line of the file; the partial trailing line is
\* left for the next read to reassemble.
C8_PartialLineLeftForNextRead ==
    [][(tailPc = "reading" /\ tailPc' = "idle" /\ AtLineStart(lastProcessedSize)) =>
          /\ AtLineStart(lastProcessedSize')
          /\ \A i \in 1..Len(readLines') : readLines'[i] \in CompleteLines]_vars


(***************************************************************************)
(*                         MESSAGE DE-DUPLICATION                          *)
(* The seen-set of one session object, fed by pty_output frames and by the *)
(* message records of its JSONL file.                                      *)
(***************************************************************************)
\* A variant of addSeenMessage that records nothing.
addSeenMessageRecordsNothing(seen, order, h) ==
    [seen |-> seen, order |-> order, dropped |-> <<>>]

\* A variant of addSeenMessage without the LRU cleanup.
addSeenMessageNoCleanup(seen, order, h) ==
    IF h \in seen THEN [seen |-> seen, order |-> order, dropped |-> <<>>]
    ELSE [seen |-> seen \cup {h}, order |-> Append(order, h), dropped |-> <<>>]

\* addSeenMessage(session, lineHash): the new set and order, and what the
\* LRU cleanup dropped.
addSeenMessage(seen, order, h) ==
    IF h \in seen THEN [seen |-> seen, order |-> order, dropped |-> <<>>]
    ELSE LET pushed == Append(order, h)
             over == IF Len(pushed) > MAX_SEEN_MESSAGES
                     THEN Len(pushed) - MAX_SEEN_MESSAGES ELSE 0
             dropped == SubSeq(pushed, 1, over)
         IN [seen |-> (seen \cup {h}) \ {dropped[i] : i \in 1..over},
             order |-> SubSeq(pushed, over + 1, Len(pushed)),
             dropped |-> dropped]

\* How often key k is among the dropped hashes.
timesDropped(dropped, k) ==
    Cardinality({i \in 1..Len(dropped) : dropped[i] = k})

nArrived == LET total[ks \in SUBSET MessageKeys] ==
                    IF ks = {} THEN 0
                    ELSE LET k == CHOOSE x \in ks : TRUE
                         IN arrived[k].pty + arrived[k].log + total[ks \ {k}]
            IN total[MessageKeys]

DedupInit ==
    /\ DedupParked
    /\ RegParked
    /\ TailParked
    /\ HubParked
    /\ StartParked
    /\ SaveParked
    /\ RunParked

\* 'data' handler, pty_output with the given content, for a session that is
\* in the table.
PtyOutput(content) ==
    /\ nArrived < MaxArrivals
    /\ LET trimmed == Trim(content)
           key == contentKey(trimmed)
           add == addSeenMessage(seenMessages, seenMessagesOrder, key)
       IN
       IF trimmed = <<>>
       THEN UNCHANGED <<seenMessages, seenMessagesOrder, arrived, emitted, evicted>>
       ELSE /\ arrived' = [arrived EXCEPT ![key].pty = @ + 1]
            /\ IF key \in seenMessages
               THEN UNCHANGED <<seenMessages, seenMessagesOrder, emitted, evicted>>
               ELSE /\ seenMessages' = add.seen
                    /\ seenMessagesOrder' = add.order
                    /\ emitted' = [emitted EXCEPT ![key] = @ + 1]
                    /\ evicted' = [k \in MessageKeys |->
                                      evicted[k] + timesDropped(add.dropped, k)]
    /\ UNCHANGED <<sessionStatus, statusCalls>>
    /\ UNCHANGED outsideDedup

\* The status update at the end of processJsonl's loop body for a record of
\* the given role whose text was taken as a message: the status the session
\* has afterwards and the onSessionStatus calls made.
statusUpdateAlwaysCalls(old, role) ==
    LET new == IF role = "user" THEN "running" ELSE "idle"
    IN [status |-> new, calls |-> <<new>>]

statusUpdate(old, role) ==
    IF role = "user" /\ old # "running"
    THEN [status |-> "running", calls |-> <<"running">>]
    ELSE IF role = "assistant" /\ old # "idle"
    THEN [status |-> "idle", calls |-> <<"idle">>]
    ELSE [status |-> old, calls |-> <<>>]

\* processJsonl, lines 436-577, for one complete line that holds a user or
\* assistant record with text: the line hash first, then the message key,
\* then the status.
TailLine(line) ==
    /\ nArrived < MaxArrivals
    /\ LET lineHash == hash(line)
           add1 == addSeenMessage(seenMessages, seenMessagesOrder, lineHash)
           trimmed == Trim(line.text)
           key == contentKey(trimmed)
           add2 == addSeenMessage(add1.seen, add1.order, key)
       IN
       IF lineHash \in seenMessages
       THEN UNCHANGED <<seenMessages, seenMessagesOrder, arrived, emitted, evicted>>
       ELSE IF trimmed = <<>> \/ line.old
       THEN /\ seenMessages' = add1.seen
            /\ seenMessagesOrder' = add1.order
            /\ evicted' = [k \in MessageKeys |->
                              evicted[k] + timesDropped(add1.dropped, k)]
            /\ UNCHANGED <<arrived, emitted>>
       ELSE /\ arrived' = [arrived EXCEPT ![key].log = @ + 1]
            /\ IF key \in add1.seen
               THEN /\ seenMessages' = add1.seen
                    /\ seenMessagesOrder' = add1.order
                    /\ evicted' = [k \in MessageKeys |->
                                      evicted[k] + timesDropped(add1.dropped, k)]
                    /\ UNCHANGED emitted
               ELSE /\ seenMessages' = add2.seen
                    /\ seenMessagesOrder' = add2.order
                    /\ emitted' = [emitted EXCEPT ![key] = @ + 1]
                    /\ evicted' = [k \in MessageKeys |->
                                      evicted[k]
                                      + timesDropped(add1.dropped, k)
                                      + timesDropped(add2.dropped, k)]
    /\ LET u == statusUpdate(sessionStatus, line.role) IN
       IF hash(line) \in seenMessages \/ Trim(line.text) = <<>> \/ line.old
       THEN /\ UNCHANGED sessionStatus
            /\ statusCalls' = <<>>
       ELSE /\ sessionStatus' = u.status
            /\ statusCalls' = u.calls
    /\ UNCHANGED outsideDedup

DedupNext ==
    \/ \E content \in Texts : PtyOutput(content)
    \/ \E line \in Lines : TailLine(line)

SpecDedup == DedupInit /\ [][DedupNext]_vars

------------------------------------------------------------------------------
MapIndex(m, k) == {i \in 1..Len(m) : m[i].id = k}

MapHas(m, k) == MapIndex(m, k) # {}

MapGet(m, k) == m[CHOOSE i \in MapIndex(m, k) : TRUE]

\* A variant of Map.set that adds an entry without replacing the one the
\* key already has.
MapSetKeepsOld(m, k, v) == Append(m, v)

MapSet(m, k, v) ==
    IF MapHas(m, k)
    THEN [i \in 1..Len(m) |-> IF m[i].id = k THEN v ELSE m[i]]
    ELSE Append(m, v)

MapDelete(m, k) ==
    LET other(e) == e.id # k IN SelectSeq(m, other)

\* session_start frames received for id, and events.onSessionStart calls
\* made for id.
nAccepted(id) == Cardinality({o \in 1..Len(objs) : objs[o].id = id})
nStart(id) ==
    Cardinality({o \in 1..Len(objs) : objs[o].id = id /\ objs[o].stage # "stat"})

\* The requests of session id still pending in the Hub when the session ends.
markEnded(log, id) ==
    [r \in ReqIds |->
        IF log[r].sid = id /\ pendingPermissions[r] # 0
        THEN [log[r] EXCEPT !.ended = TRUE] ELSE log[r]]

\* The three lines every end of a session runs: stopWatching(session),
\* sessions.delete(id), events.onSessionEnd(id).  createSessionEndHandler
\* reads and writes none of the permission tables.
EndSession(e) ==
    /\ watching' = watching \ {e.obj}
    /\ sessions' = MapDelete(sessions, e.id)
    /\ nEnd' = [nEnd EXCEPT ![e.id] = @ + 1]
    /\ reqlog' = markEnded(reqlog, e.id)

\* A variant of sendPermissionDecision that leaves the request in the table
\* after it has written the response.
sendPermissionDecisionKeepsEntry(pp, log, r, behavior, message) ==
    [pp  |-> pp,
     log |-> IF pp[r] = 0 THEN log
             ELSE [log EXCEPT ![r].nResp = @ + 1, ![r].to = pp[r],
                              ![r].behavior = behavior,
                              ![r].message = message,
                              ![r].late = log[r].ended]]

\* sendPermissionDecision(requestId, decision) on the table pp: the socket
\* is looked up, the permission_response is written to it, the entry deleted.
\* message "none" stands for a decision without a message.
sendPermissionDecision(pp, log, r, behavior, message) ==
    [pp  |-> [pp EXCEPT ![r] = 0],
     log |-> IF pp[r] = 0 THEN log
             ELSE [log EXCEPT ![r].nResp = @ + 1, ![r].to = pp[r],
                              ![r].behavior = behavior,
                              ![r].message = message,
                              ![r].late = log[r].ended]]

\* sendAskUserQuestionResponse(requestId, answers): the same, with the
\* answers in decision.updatedInput.
sendAskUserQuestionResponse(pp, log, r, answers) ==
    [pp  |-> [pp EXCEPT ![r] = 0],
     log |-> IF pp[r] = 0 THEN log
             ELSE [log EXCEPT ![r].nResp = @ + 1, ![r].to = pp[r],
                              ![r].behavior = "allow+answers",
                              ![r].answers = answers,
                              ![r].late = log[r].ended]]

\* allowPendingAskUserQuestion(sessionId, answers) on the tables pp and paq:
\* the request recorded for the session, if any, is answered and the
\* session's entry deleted.
allowPendingAskUserQuestion(pp, paq, log, sid, answers) ==
    IF paq[sid] = 0
    THEN [pp |-> pp, paq |-> paq, log |-> log]
    ELSE LET d == sendAskUserQuestionResponse(pp, log, paq[sid], answers)
         IN [pp |-> d.pp, paq |-> [paq EXCEPT ![sid] = 0], log |-> d.log]

HubInit ==
    /\ HubParked
    /\ RegParked
    /\ TailParked
    /\ DedupParked
    /\ StartParked
    /\ SaveParked
    /\ RunParked

\* 'data' handler, session_start: handleSessionMessage runs up to its
\* await stat(); the data handler does not wait for it.
RecvSessionStart(c, id) ==
    /\ conn[c] = "open"
    /\ Len(objs) < MaxStarts
    /\ objs' = Append(objs, [id |-> id, conn |-> c, stage |-> "stat"])
    /\ UNCHANGED <<conn, sessions, watching, nEnd, pendingPermissions,
                   pendingAskUserQuestions, statePending, posting,
                   yoloSessions, reqlog>>
    /\ UNCHANGED outsideHub

\* session_start, lines 221-254: stat() has settled; the session object is
\* built, put in the table and events.onSessionStart is called.
StatDone(o) ==
    /\ o \in 1..Len(objs)
    /\ objs[o].stage = "stat"
    /\ sessions' = MapSet(sessions, objs[o].id,
                          [id |-> objs[o].id, socket |-> objs[o].conn, obj |-> o])
    /\ objs' = [objs EXCEPT ![o].stage = "onStart"]
    /\ UNCHANGED <<conn, watching, nEnd, pendingPermissions,
                   pendingAskUserQuestions, statePending, posting,
                   yoloSessions, reqlog>>
    /\ UNCHANGED outsideHub

\* session_start, line 254: the adapter's onSessionStart has settled;
\* startWatching(session).
OnStartDone(o) ==
    /\ o \in 1..Len(objs)
    /\ objs[o].stage = "onStart"
    /\ objs' = [objs EXCEPT ![o].stage = "done"]
    /\ watching' = watching \cup {o}
    /\ UNCHANGED <<conn, sessions, nEnd, pendingPermissions,
                   pendingAskUserQuestions, statePending, posting,
                   yoloSessions, reqlog>>
    /\ UNCHANGED outsideHub

\* 'data' handler, session_end naming session id.
RecvSessionEnd(c, id) ==
    /\ conn[c] = "open"
    /\ IF MapHas(sessions, id)
       THEN EndSession(MapGet(sessions, id))
       ELSE UNCHANGED <<watching, sessions, nEnd, reqlog>>
    /\ UNCHANGED <<conn, objs, pendingPermissions, pendingAskUserQuestions,
                   statePending, posting, yoloSessions>>
    /\ UNCHANGED outsideHub

\* 'close' handler: the first session of the table bound to this socket is
\* ended, then the loop breaks.
Close(c) ==
    /\ conn[c] = "open"
    /\ conn' = [conn EXCEPT ![c] = "closed"]
    /\ LET bound == {i \in 1..Len(sessions) : sessions[i].socket = c} IN
       IF bound # {}
       THEN EndSession(sessions[CHOOSE i \in bound : \A j \in bound : i <= j])
       ELSE UNCHANGED <<watching, sessions, nEnd, reqlog>>
    /\ UNCHANGED <<objs, pendingPermissions, pendingAskUserQuestions,
                   statePending, posting, yoloSessions>>
    /\ UNCHANGED outsideHub

\* sendInput(sessionId, text) whose first socket.write throws.
SendInputFails(id) ==
    /\ MapHas(sessions, id)
    /\ EndSession(MapGet(sessions, id))
    /\ UNCHANGED <<conn, objs, pendingPermissions, pendingAskUserQuestions,
                   statePending, posting, yoloSessions>>
    /\ UNCHANGED outsideHub

\* 'data' handler, permission_request, together with the synchronous start
\* of createPermissionRequestHandler's promise: the YOLO branch resolves at
\* once (hasThread: getThread finds a thread to notify), the other branch
\* stores the resolver and starts sendToThread().
RecvPermissionRequest(c, r, sid, tool, hasThread) ==
    /\ conn[c] = "open"
    /\ reqlog[r].conn = 0
    /\ LET pp1 == [pendingPermissions EXCEPT ![r] = c]
           log1 == [reqlog EXCEPT ![r] =
                       [NoRequest EXCEPT !.conn = c, !.sid = sid, !.tool = tool,
                                         !.yolo = (sid \in yoloSessions)]]
       IN
       IF tool = "AskUserQuestion"
       THEN /\ pendingPermissions' = pp1
            /\ pendingAskUserQuestions' =
                   [pendingAskUserQuestions EXCEPT ![sid] = r]
            /\ reqlog' = log1
            /\ UNCHANGED <<statePending, posting>>
       ELSE IF sid \in yoloSessions
       THEN LET d == sendPermissionDecision(
                         pp1, [log1 EXCEPT ![r].notified = hasThread], r, "allow",
                         "none")
            IN /\ pendingPermissions' = d.pp
               /\ reqlog' = d.log
               /\ UNCHANGED <<pendingAskUserQuestions, statePending, posting>>
       ELSE /\ pendingPermissions' = pp1
            /\ reqlog' = log1
            /\ statePending' = [statePending EXCEPT ![r] = sid]
            /\ posting' = posting \cup {r}
            /\ UNCHANGED pendingAskUserQuestions
    /\ UNCHANGED <<conn, sessions, objs, watching, nEnd, yoloSessions>>
    /\ UNCHANGED outsideHub

\* The thread lookups of sendToThread(). session is the state of the
\* session's entry in channelManager.sessions ("none" without one), which
\* getThread reads through getSession and fallback 1 through getAllActive;
\* fetched and refetched are what client.channels.fetch gives for its thread
\* in getThread (which catches a failure) and in fallback 1 (which does
\* not); persisted tells whether getPersistedMapping has an entry and
\* fetchedPersisted what the fetch of its thread gives inside the inner try;
\* sendFails tells whether send() rejects. "posted": the buttons are in a
\* thread; "nothread": the end of the chain; "error": the outer catch.
sendToThreadAlwaysPosts(session, fetched, refetched, persisted, fetchedPersisted, sendFails) ==
    "posted"

sendToThread(session, fetched, refetched, persisted, fetchedPersisted, sendFails) ==
    IF session # "none" /\ fetched = "thread"
    THEN IF sendFails THEN "error" ELSE "posted"
    ELSE IF session = "active" /\ refetched = "throws" THEN "error"
    ELSE IF session = "active" /\ refetched = "thread"
    THEN IF sendFails THEN "error" ELSE "posted"
    ELSE IF persisted /\ fetchedPersisted = "thread" /\ ~sendFails
    THEN "posted"
    ELSE "nothread"

\* 'data' handler, permission_request, where the adapter's handler rejects:
\* the executor of createPermissionRequestHandler's promise has stored the
\* resolver and then throws while it formats the request, before
\* sendToThread() starts; the catch branch of the data handler writes the
\* decision.
RecvPermissionRequestThrowsNoHandler(c, r, sid) ==
    /\ conn[c] = "open"
    /\ reqlog[r].conn = 0
    /\ sid \notin yoloSessions
    /\ LET pp1 == [pendingPermissions EXCEPT ![r] = c]
           log1 == [reqlog EXCEPT ![r] =
                       [NoRequest EXCEPT !.conn = c, !.sid = sid,
                                         !.tool = "Bash",
                                         !.settled = "rejected"]]
           d == sendPermissionDecision(pp1, log1, r, "deny",
                                       "No handler available")
       IN /\ pendingPermissions' = d.pp
          /\ reqlog' = d.log
          /\ statePending' = [statePending EXCEPT ![r] = sid]
    /\ UNCHANGED <<conn, sessions, objs, watching, nEnd,
                   pendingAskUserQuestions, posting, yoloSessions>>
    /\ UNCHANGED outsideHub

RecvPermissionRequestThrows(c, r, sid) ==
    /\ conn[c] = "open"
    /\ reqlog[r].conn = 0
    /\ sid \notin yoloSessions
    /\ LET pp1 == [pendingPermissions EXCEPT ![r] = c]
           log1 == [reqlog EXCEPT ![r] =
                       [NoRequest EXCEPT !.conn = c, !.sid = sid,
                                         !.tool = "Bash",
                                         !.settled = "rejected"]]
           d == sendPermissionDecision(pp1, log1, r, "deny",
                                       "Error processing request")
       IN /\ pendingPermissions' = d.pp
          /\ reqlog' = d.log
          /\ statePending' = [statePending EXCEPT ![r] = sid]
    /\ UNCHANGED <<conn, sessions, objs, watching, nEnd,
                   pendingAskUserQuestions, posting, yoloSessions>>
    /\ UNCHANGED outsideHub

\* What channelManager.sessions holds for a session id, and what
\* client.channels.fetch(threadId) gives.
SessionEntries == {"none", "active", "ended"}
Fetches == {"thread", "notthread", "throws"}

\* The ways sendToThread() can end, over every result of its lookups.
SendToThreadOutcomes ==
    {sendToThread(session, fetched, refetched, persisted, fetchedPersisted,
                  sendFails) :
        session \in SessionEntries, fetched \in Fetches, refetched \in Fetches,
        persisted \in BOOLEAN, fetchedPersisted \in Fetches,
        sendFails \in BOOLEAN}

\* sendToThread() settles: the buttons were posted, or no thread could be
\* resolved (allow), or posting threw (deny).
AdapterPostDone(r, outcome) ==
    /\ r \in posting
    /\ posting' = posting \ {r}
    /\ IF outcome = "posted"
       THEN /\ reqlog' = [reqlog EXCEPT ![r].ui = TRUE,
                                        ![r].settled = outcome]
            /\ UNCHANGED <<pendingPermissions, statePending>>
       ELSE LET d == sendPermissionDecision(
                         pendingPermissions,
                         [reqlog EXCEPT ![r].settled = outcome], r,
                         IF outcome = "nothread" THEN "allow" ELSE "deny",
                         IF outcome = "nothread" THEN "none"
                         ELSE "Failed to post to Discord")
            IN /\ pendingPermissions' = d.pp
               /\ reqlog' = d.log
               /\ statePending' = [statePending EXCEPT ![r] = 0]
    /\ UNCHANGED <<conn, sessions, objs, watching, nEnd,
                   pendingAskUserQuestions, yoloSessions>>
    /\ UNCHANGED outsideHub

\* handlePermissionButton: a press of Allow, YOLO or Deny under the posted
\* request r; the buttons stay in the chat after a decision, and a press
\* that finds no resolver for r ("expired") is noted in the log.
Button(r, decision) ==
    /\ reqlog[r].ui
    /\ IF statePending[r] = 0
       THEN /\ reqlog' = [reqlog EXCEPT ![r].again = TRUE]
            /\ UNCHANGED <<pendingPermissions, statePending, yoloSessions>>
       ELSE LET d == sendPermissionDecision(
                         pendingPermissions, reqlog, r,
                         IF decision = "deny" THEN "deny" ELSE "allow", "none")
            IN /\ pendingPermissions' = d.pp
               /\ reqlog' = d.log
               /\ statePending' = [statePending EXCEPT ![r] = 0]
               /\ yoloSessions' = IF decision = "yolo"
                                  THEN yoloSessions \cup {statePending[r]}
                                  ELSE yoloSessions
    /\ UNCHANGED <<conn, sessions, objs, watching, nEnd,
                   pendingAskUserQuestions, posting>>
    /\ UNCHANGED outsideHub

\* sendPermissionDecision(requestId, decision) called once more for a
\* request id whose decision has been written.
SendPermissionDecisionAgain(r, behavior) ==
    /\ reqlog[r].nResp >= 1
    /\ LET d == sendPermissionDecision(
                    pendingPermissions, [reqlog EXCEPT ![r].again = TRUE],
                    r, behavior, "none")
       IN /\ pendingPermissions' = d.pp
          /\ reqlog' = d.log
    /\ UNCHANGED <<conn, sessions, objs, watching, nEnd,
                   pendingAskUserQuestions, statePending, posting,
                   yoloSessions>>
    /\ UNCHANGED outsideHub

\* allowPendingAskUserQuestion(sessionId, answers): the user has answered the
\* questions of session sid.
AllowPendingAskUserQuestion(sid) ==
    /\ pendingAskUserQuestions[sid] # 0
    /\ LET d == allowPendingAskUserQuestion(
                    pendingPermissions, pendingAskUserQuestions, reqlog, sid,
                    [k \in AnswerKeys |-> "A"])
       IN /\ pendingPermissions' = d.pp
          /\ pendingAskUserQuestions' = d.paq
          /\ reqlog' = d.log
    /\ UNCHANGED <<conn, sessions, objs, watching, nEnd, statePending,
                   posting, yoloSessions>>
    /\ UNCHANGED outsideHub

\* handleYolo: the /yolo command toggles the session's flag.
ToggleYolo(sid) ==
    /\ yoloSessions' = IF sid \in yoloSessions
                       THEN yoloSessions \ {sid} ELSE yoloSessions \cup {sid}
    /\ UNCHANGED <<conn, sessions, objs, watching, nEnd, pendingPermissions,
                   pendingAskUserQuestions, statePending, posting, reqlog>>
    /\ UNCHANGED outsideHub

\* The socket server and the session table.
Next ==
    \/ \E c \in Conns, id \in SessionIds : RecvSessionStart(c, id)
    \/ \E o \in 1..MaxStarts : StatDone(o)
    \/ \E o \in 1..MaxStarts : OnStartDone(o)
    \/ \E c \in Conns, id \in SessionIds : RecvSessionEnd(c, id)
    \/ \E c \in Conns : Close(c)
    \/ \E id \in SessionIds : SendInputFails(id)

Spec == HubInit /\ [][Next]_vars

\* A session_start frame, as far as the permission specification follows the
\* sessions.
PermSessionStart(c, id) == Len(objs) < MaxPermStarts /\ RecvSessionStart(c, id)

\* The permission arbitration, with the sessions the requests belong to.
PermNext ==
    \/ \E c \in Conns, id \in PermSessionIds : PermSessionStart(c, id)
    \/ \E o \in 1..MaxPermStarts : StatDone(o)
    \/ \E o \in 1..MaxPermStarts : OnStartDone(o)
    \/ \E c \in Conns, id \in PermSessionIds : RecvSessionEnd(c, id)
    \/ \E c \in Conns : Close(c)
    \/ \E id \in PermSessionIds : SendInputFails(id)
    \/ \E c \in Conns, r \in ReqIds, sid \in PermSessionIds,
          tool \in {"Bash", "AskUserQuestion"}, hasThread \in BOOLEAN :
          RecvPermissionRequest(c, r, sid, tool, hasThread)
    \/ \E r \in ReqIds, outcome \in SendToThreadOutcomes :
          AdapterPostDone(r, outcome)
    \/ \E c \in Conns, r \in ReqIds, sid \in PermSessionIds :
          RecvPermissionRequestThrows(c, r, sid)
    \/ \E r \in ReqIds, decision \in {"allow", "yolo", "deny"} : Button(r, decision)
    \/ \E r \in ReqIds, behavior \in {"allow", "deny"} :
          SendPermissionDecisionAgain(r, behavior)
    \/ \E sid \in PermSessionIds : AllowPendingAskUserQuestion(sid)
    \/ \E sid \in PermSessionIds : ToggleYolo(sid)

SpecPerm == HubInit /\ [][PermNext]_vars

\* The way of one permission request through the handler of the adapter:
\* the frames, the connections, the posting and the buttons.
PostNext ==
    \/ \E c \in Conns : Close(c)
    \/ \E c \in Conns, r \in PostReqIds, sid \in PermSessionIds,
          tool \in {"Bash", "AskUserQuestion"}, hasThread \in BOOLEAN :
          RecvPermissionRequest(c, r, sid, tool, hasThread)
    \/ \E c \in Conns, r \in PostReqIds, sid \in PermSessionIds :
          RecvPermissionRequestThrows(c, r, sid)
    \/ \E r \in PostReqIds, outcome \in SendToThreadOutcomes :
          AdapterPostDone(r, outcome)
    \/ \E r \in PostReqIds, decision \in {"allow", "yolo", "deny"} : Button(r, decision)
    \/ \E sid \in PermSessionIds : ToggleYolo(sid)

SpecPost == HubInit /\ [][PostNext]_vars

------------------------------------------------------------------------------
\* The runner's connection to the daemon.

\* Math.min(this.reconnectInterval * 1.5, MAX_RECONNECT_INTERVAL).
nextInterval(interval) ==
    IF (interval * 3) \div 2 < MAX_RECONNECT_INTERVAL
    THEN (interval * 3) \div 2 ELSE MAX_RECONNECT_INTERVAL

\* this.socket!.write(...) in the 'connect' listener: with this.socket null
\* the call throws a TypeError before anything is written.
canWriteAlways(sock) == TRUE

canWrite(sock) == sock # 0

\* connect(): nothing when closed, else a new socket starts to connect.
connect ==
    IF closed \/ Len(sockState) >= MaxAttempts
    THEN UNCHANGED <<socket, sockState>>
    ELSE /\ sockState' = Append(sockState, "connecting")
         /\ socket' = Len(sockState) + 1

\* start(), called once after construction.
DcStart ==
    /\ ~crashed
    /\ sockState = <<>>
    /\ Len(sockState) < MaxAttempts
    /\ connect
    /\ UNCHANGED <<closed, connected, reconnectTimer, reconnectInterval,
                   nSessionStart, crashed>>
    /\ UNCHANGED outsideRun

\* 'connect' listener of socket s: the session_start frame is written
\* through this.socket; the TypeError of a null this.socket is uncaught
\* and ends the process.
DcOnConnect(s) ==
    /\ ~crashed
    /\ s \in 1..Len(sockState)
    /\ sockState[s] = "connecting"
    /\ sockState' = [sockState EXCEPT ![s] = "open"]
    /\ connected' = TRUE
    /\ reconnectInterval' = RECONNECT_INTERVAL
    /\ IF canWrite(socket)
       THEN nSessionStart' = nSessionStart + 1 /\ UNCHANGED crashed
       ELSE crashed' = TRUE /\ UNCHANGED nSessionStart
    /\ UNCHANGED <<closed, socket, reconnectTimer>>
    /\ UNCHANGED outsideRun

\* 'close' listener of socket s: the attempt failed, the daemon went away,
\* or the socket's own end() has completed.
DcOnClose(s) ==
    /\ ~crashed
    /\ s \in 1..Len(sockState)
    /\ sockState[s] \in {"connecting", "open", "ending"}
    /\ sockState' = [sockState EXCEPT ![s] = "closed"]
    /\ connected' = FALSE
    /\ socket' = 0
    /\ IF closed \/ reconnectTimer
       THEN UNCHANGED <<reconnectTimer, reconnectInterval>>
       ELSE /\ reconnectTimer' = TRUE
            /\ reconnectInterval' = nextInterval(reconnectInterval)
    /\ UNCHANGED <<closed, nSessionStart, crashed>>
    /\ UNCHANGED outsideRun

\* The reconnect timer fires.
DcTimer ==
    /\ ~crashed
    /\ reconnectTimer
    /\ Len(sockState) < MaxAttempts
    /\ reconnectTimer' = FALSE
    /\ connect
    /\ UNCHANGED <<closed, connected, reconnectInterval, nSessionStart,
                   crashed>>
    /\ UNCHANGED outsideRun

\* close(): the flag is set, the timer cleared, session_end written and the
\* socket ended when it is connected, and this.socket forgotten.
DcClose ==
    /\ ~crashed
    /\ ~closed
    /\ closed' = TRUE
    /\ reconnectTimer' = FALSE
    /\ sockState' = IF socket # 0 /\ connected
                    THEN [sockState EXCEPT ![socket] = "ending"]
                    ELSE sockState
    /\ socket' = 0
    /\ UNCHANGED <<connected, reconnectInterval, nSessionStart, crashed>>
    /\ UNCHANGED outsideRun

RunNext ==
    \/ DcStart
    \/ \E s \in Sockets : DcOnConnect(s)
    \/ \E s \in Sockets : DcOnClose(s)
    \/ DcTimer
    \/ DcClose

SpecRun == HubInit /\ [][RunNext]_vars

------------------------------------------------------------------------------
\* The JSON documents the daemon keeps on disk.

\* saveRegistry, saveSettings, saveMappings: writeFile(FILE, JSON.stringify(
\* ...)) of version v of the document opens the file itself for writing,
\* which truncates it.  One writeFile at a time is followed per file.
SaveOpen(f, v) ==
    /\ saving[f] = 0
    /\ saving' = [saving EXCEPT ![f] = v]
    /\ disk' = [disk EXCEPT ![f] = <<>>]
    /\ UNCHANGED outsideSave

\* writeFile writes the next chunk of the document; after the last one the
\* file is closed and the save has returned.
SaveWrite(f) ==
    /\ saving[f] # 0
    /\ disk' = [disk EXCEPT ![f] = Append(@, saving[f])]
    /\ saving' = [saving EXCEPT ![f] =
                     IF Len(disk[f]) + 1 = DocChunks THEN 0 ELSE @]
    /\ UNCHANGED outsideSave

\* The daemon dies while a writeFile is in flight (crash, kill, power
\* loss) and is started again: no write is in flight, the files are as
\* they were left.
SaveCrash ==
    /\ \E f \in SavedFiles : saving[f] # 0
    /\ saving' = [f \in SavedFiles |-> 0]
    /\ UNCHANGED disk
    /\ UNCHANGED outsideSave

SaveNext ==
    \/ \E f \in SavedFiles, v \in 1..MaxVersions : SaveOpen(f, v)
    \/ \E f \in SavedFiles : SaveWrite(f)
    \/ SaveCrash

SpecSave == HubInit /\ [][SaveNext]_vars

------------------------------------------------------------------------------
\* The structured questions of the Discord adapter.

\* What getAllAnswers returns while a question is unanswered.
Null == [k \in {"null"} |-> NoAnswer]

\* getAllAnswers(state, toolUseId): null unless every question of the tool
\* call has a non-empty answer, else the answers keyed by i.toString().
getAllAnswers(pq, pa, t) ==
    IF pq[t] = 0 THEN Null
    ELSE IF \E i \in QuestionIndexes : pa[t][i] = NoAnswer THEN Null
    ELSE [k \in AnswerKeys |->
             pa[t][CHOOSE i \in QuestionIndexes : toString(i) = k]]

\* createToolCallHandler, AskUserQuestion: the tail of the event log shows
\* the tool call t of session sid; its questions are recorded and posted.
AskToolCall(t, sid) ==
    /\ pendingQuestions[t] = 0
    /\ t \notin submitted
    /\ reqlog[t].conn # 0 => reqlog[t].sid = sid
    /\ pendingQuestions' = [pendingQuestions EXCEPT ![t] = sid]
    /\ UNCHANGED <<pendingAnswers, trying, submitted, nAnswers>>
    /\ UNCHANGED hubVars
    /\ UNCHANGED outsideAsk

\* The permission_request frame of the hook that runs for tool call r.
AskPermissionRequest(c, r, sid) ==
    /\ pendingQuestions[r] \in {0, sid}
    /\ RecvPermissionRequest(c, r, sid, "AskUserQuestion", FALSE)

\* handleAskQuestionButton, handleAskQuestionSubmit, handleAskQuestionModal
\* up to their await: the user answers question i of tool call t; a tool
\* call that is not pending gets "expired".
AnswerStore(t, i, label) ==
    /\ nAnswers < MaxAnswers
    /\ nAnswers' = nAnswers + 1
    /\ IF pendingQuestions[t] = 0
       THEN UNCHANGED <<pendingAnswers, trying>>
       ELSE /\ pendingAnswers' = [pendingAnswers EXCEPT ![t][i] = label]
            /\ trying' = [trying EXCEPT ![t] = @ + 1]
    /\ UNCHANGED <<pendingQuestions, submitted>>
    /\ UNCHANGED hubVars
    /\ UNCHANGED outsideAsk

\* The rest of an answer handler: the message was edited, then
\* trySubmitAllAnswers(context, toolUseId) hands the answers to the Hub if
\* all are there, and cleans the question's state.
TrySubmit(t) ==
    /\ trying[t] > 0
    /\ trying' = [trying EXCEPT ![t] = @ - 1]
    /\ LET answers == getAllAnswers(pendingQuestions, pendingAnswers, t) IN
       IF pendingQuestions[t] = 0 \/ answers = Null
       THEN UNCHANGED <<pendingQuestions, pendingAnswers, submitted,
                        pendingPermissions, pendingAskUserQuestions, reqlog>>
       ELSE LET d == allowPendingAskUserQuestion(
                         pendingPermissions, pendingAskUserQuestions, reqlog,
                         pendingQuestions[t], answers)
            IN /\ pendingPermissions' = d.pp
               /\ pendingAskUserQuestions' = d.paq
               /\ reqlog' = d.log
               /\ pendingAnswers' = [pendingAnswers EXCEPT
                                        ![t] = [i \in QuestionIndexes |-> NoAnswer]]
               /\ pendingQuestions' = [pendingQuestions EXCEPT ![t] = 0]
               /\ submitted' = submitted \cup {t}
    /\ UNCHANGED nAnswers
    /\ UNCHANGED <<conn, sessions, objs, watching, nEnd, statePending,
                   posting, yoloSessions>>
    /\ UNCHANGED outsideAsk

AskNext ==
    \/ \E t \in ToolUseIds, sid \in PermSessionIds : AskToolCall(t, sid)
    \/ \E c \in Conns, r \in ReqIds, sid \in PermSessionIds :
          AskPermissionRequest(c, r, sid)
    \/ \E t \in ToolUseIds, i \in QuestionIndexes, label \in OptionLabels :
          AnswerStore(t, i, label)
    \/ \E t \in ToolUseIds : TrySubmit(t)

SpecAsk == HubInit /\ [][AskNext]_vars

------------------------------------------------------------------------------
\* sendInput and its timer.

InputTexts == {"hello"}

\* The delay of sendInput's setTimeout, in milliseconds.
InputCrDelay == 100

\* JSON.stringify({ type: 'input', text }).
inputFrame(text) == [type |-> "input", text |-> text]

\* A variant of the timer's frame that carries a line feed.
crFrameLineFeed == inputFrame("\n")

\* The frame sendInput's timer writes.
crFrame == inputFrame("\r")

\* socket.write(frame) on connection c: a destroyed socket takes no frame
\* and does not throw.
socketWrite(fr, c, frame) ==
    IF conn[c] = "open" THEN [fr EXCEPT ![c] = Append(@, frame)] ELSE fr

\* sendInput(sessionId, text) that returns true: the input frame is written
\* to the socket of the session in the table and the timer is set.
SendInput(id, text) ==
    /\ Len(calls) < MaxInputs
    /\ MapHas(sessions, id)
    /\ LET c == MapGet(sessions, id).socket IN
       /\ frames' = socketWrite(frames, c, inputFrame(text))
       /\ calls' = Append(calls, [socket |-> c, text |-> text,
                                  first |-> IF conn[c] = "open"
                                            THEN Len(frames[c]) + 1 ELSE 0,
                                  timer |-> "set", waited |-> 0, second |-> 0])
    /\ UNCHANGED hubVars
    /\ UNCHANGED outsideInput

\* The timer of call k fires: the carriage-return frame is written to the
\* socket the session object had when sendInput was called.
InputTimer(k) ==
    /\ k \in 1..Len(calls)
    /\ calls[k].timer = "set"
    /\ calls[k].waited >= InputCrDelay
    /\ LET c == calls[k].socket IN
       /\ frames' = socketWrite(frames, c, crFrame)
       /\ calls' = [calls EXCEPT ![k].timer = "fired",
                                 ![k].second = IF conn[c] = "open"
                                               THEN Len(frames[c]) + 1 ELSE 0]
    /\ UNCHANGED hubVars
    /\ UNCHANGED outsideInput

\* Time passes for the timers that are set; a timer that is due runs before
\* more time passes.
Elapse ==
    /\ \E k \in 1..Len(calls) : calls[k].timer = "set"
    /\ \A k \in 1..Len(calls) :
          calls[k].timer = "set" => calls[k].waited < InputCrDelay
    /\ calls' = [k \in 1..Len(calls) |->
                    IF calls[k].timer = "set"
                    THEN [calls[k] EXCEPT !.waited = @ + TickMs]
                    ELSE calls[k]]
    /\ UNCHANGED frames
    /\ UNCHANGED hubVars
    /\ UNCHANGED outsideInput

InputNext ==
    \/ \E c \in Conns, id \in PermSessionIds : PermSessionStart(c, id)
    \/ \E o \in 1..MaxPermStarts : StatDone(o)
    \/ \E o \in 1..MaxPermStarts : OnStartDone(o)
    \/ \E c \in Conns : Close(c)
    \/ \E id \in PermSessionIds, text \in InputTexts : SendInput(id, text)
    \/ \E k \in 1..MaxInputs : InputTimer(k)
    \/ Elapse

SpecInput == HubInit /\ [][InputNext]_vars

------------------------------------------------------------------------------
\* The event stream of one session id: the records Claude Code appends to
\* the session's event log and the events processJsonl hands to the adapter.

ToolUses == 1..NumToolUses

\* The records Claude Code can append next: an assistant record with a
\* tool_use block of a fresh id, or a user record with the tool_result of a
\* tool call already in the log.  uuid tells the lines apart.
NextRecords ==
    LET used == {jsonl[i].id : i \in {j \in 1..Len(jsonl) : jsonl[j].type = "assistant"}}
        done == {jsonl[i].id : i \in {j \in 1..Len(jsonl) : jsonl[j].type = "user"}}
    IN {[type |-> "assistant", id |-> t, uuid |-> Len(jsonl) + 1] : t \in ToolUses \ used}
       \cup {[type |-> "user", id |-> t, uuid |-> Len(jsonl) + 1] : t \in used \ done}

\* A complete line that is not valid JSON; uuid is its place in the log.
BadLine(n) == [type |-> "garbage", id |-> 0, uuid |-> n]

\* The events one line gives once its hash is in the seen-set: none when
\* JSON.parse throws (the catch continues with the next line), else
\* onToolCall for the tool_use block, onToolResult for the tool_result block.
lineEventsAlsoUnparsed(line) ==
    <<[on |-> IF line.type = "user" THEN "onToolResult" ELSE "onToolCall",
       id |-> line.id, uuid |-> line.uuid]>>

lineEvents(line) ==
    IF line.type = "garbage" THEN <<>>
    ELSE <<[on |-> IF line.type = "assistant"
                   THEN "onToolCall" ELSE "onToolResult",
            id |-> line.id, uuid |-> line.uuid]>>

\* The body of processJsonl's loop for the lines after the first n of lines:
\* a line whose hash is in the seen-set is skipped; otherwise the hash is
\* added and the line's events are emitted.
RECURSIVE processLines(_, _, _, _, _)
processLines(lines, n, seen, order, events) ==
    IF n = Len(lines) THEN [seen |-> seen, order |-> order, events |-> events]
    ELSE LET line == lines[n + 1]
             lineHash == hash(line)
         IN IF lineHash \in seen
            THEN processLines(lines, n + 1, seen, order, events)
            ELSE LET a == addSeenMessage(seen, order, lineHash)
                 IN processLines(lines, n + 1, a.seen, a.order,
                                 events \o lineEvents(line))

\* Claude Code appends a record to the event log.
AppendRecord(type, t) ==
    /\ Len(jsonl) < MaxRecords
    /\ [type |-> type, id |-> t, uuid |-> Len(jsonl) + 1] \in NextRecords
    /\ jsonl' = Append(jsonl, [type |-> type, id |-> t, uuid |-> Len(jsonl) + 1])
    /\ UNCHANGED <<tailers, tailing, inSessions, out>>
    /\ UNCHANGED outsideOrder

\* A line that is not valid JSON gets into the event log.
AppendBadLine ==
    /\ Len(jsonl) < MaxRecords
    /\ jsonl' = Append(jsonl, BadLine(Len(jsonl) + 1))
    /\ UNCHANGED <<tailers, tailing, inSessions, out>>
    /\ UNCHANGED outsideOrder

\* session_start for the session id: the new session object starts at the
\* size of the log, replaces the one in this.sessions (whose watcher is not
\* closed) and is watched.
TailSessionStart ==
    /\ Len(tailers) < MaxStarts
    /\ tailers' = Append(tailers, [lastProcessedSize |-> Len(jsonl),
                                   seenMessages |-> {},
                                   seenMessagesOrder |-> <<>>,
                                   processing |-> FALSE])
    /\ inSessions' = Len(tailers) + 1
    /\ tailing' = tailing \cup {Len(tailers) + 1}
    /\ UNCHANGED <<jsonl, out>>
    /\ UNCHANGED outsideOrder

\* session_end, close of the bound socket or a failed sendInput:
\* stopWatching for the session object in this.sessions.
TailSessionEnd ==
    /\ inSessions # 0
    /\ tailing' = tailing \ {inSessions}
    /\ inSessions' = 0
    /\ UNCHANGED <<jsonl, tailers, out>>
    /\ UNCHANGED outsideOrder

\* processJsonl(session) of session object o, called by its watcher or its
\* poll: a call that finds session.processing set returns at once; otherwise
\* the flag is set and the log is read.
ProcessJsonlBegin(o) ==
    /\ o \in tailing
    /\ ~tailers[o].processing
    /\ tailers' = [tailers EXCEPT ![o].processing = TRUE]
    /\ UNCHANGED <<jsonl, tailing, inSessions, out>>
    /\ UNCHANGED outsideOrder

\* readFile of a run of processJsonl resolves: the lines after
\* lastProcessedSize are handled in file order and the flag is cleared.  The
\* run ends like this whether or not the watcher and the poll that started
\* it are still active.
ProcessJsonlRead(o) ==
    /\ o \in 1..Len(tailers)
    /\ tailers[o].processing
    /\ LET p == processLines(
                    SubSeq(jsonl, tailers[o].lastProcessedSize + 1, Len(jsonl)),
                    0, tailers[o].seenMessages, tailers[o].seenMessagesOrder,
                    <<>>)
       IN /\ tailers' = [tailers EXCEPT ![o] =
                            [lastProcessedSize |-> Len(jsonl),
                             seenMessages |-> p.seen,
                             seenMessagesOrder |-> p.order,
                             processing |-> FALSE]]
          /\ out' = out \o p.events
    /\ UNCHANGED <<jsonl, tailing, inSessions>>
    /\ UNCHANGED outsideOrder

OrderNext ==
    \/ \E type \in {"assistant", "user"}, t \in ToolUses : AppendRecord(type, t)
    \/ TailSessionStart
    \/ TailSessionEnd
    \/ \E o \in 1..MaxStarts : ProcessJsonlBegin(o)
    \/ \E o \in 1..MaxStarts : ProcessJsonlRead(o)

SpecOrder == HubInit /\ [][OrderNext]_vars

\* The first session_start of the session id.
FirstSessionStart == Len(tailers) = 0 /\ TailSessionStart

\* One session object reading a log that also gets lines that are not
\* valid JSON.
ParseNext ==
    \/ \E type \in {"assistant", "user"}, t \in ToolUses : AppendRecord(type, t)
    \/ AppendBadLine
    \/ FirstSessionStart
    \/ \E o \in 1..MaxStarts : ProcessJsonlBegin(o)
    \/ \E o \in 1..MaxStarts : ProcessJsonlRead(o)

SpecParse == HubInit /\ [][ParseNext]_vars


------------------------------------------------------------------------------
\* Nothing is left that could still deliver a session event: every
\* connection is closed, no session_start handler is in flight and the
\* session table is empty.
AllOver ==
    /\ \A c \in Conns : conn[c] = "closed"
    /\ \A o \in 1..Len(objs) : objs[o].stage = "done"
    /\ sessions = <<>>

\* C1: for every session_start frame the Hub accepts the adapter receives
\* exactly one session-start and exactly one session-end for that session,
\* session-start first, whichever way the session finishes: never more ends
\* than starts, never more starts than accepted frames; a connection that
\* has closed leaves no session bound to it (its close produced the
\* session-end); and when all is over there is one start and one end for
\* each accepted frame.
C1_OneStartOneEndPerAcceptedStart ==
    /\ \A i \in 1..Len(sessions) : conn[sessions[i].socket] = "open"
    /\ \A id \in SessionIds :
          /\ nEnd[id] <= nStart(id)
          /\ nStart(id) <= nAccepted(id)
          /\ AllOver => (nStart(id) = nAccepted(id) /\ nEnd[id] = nAccepted(id))

Answerable(r) ==
    /\ pendingPermissions[r] # 0
    /\ \/ statePending[r] # 0
       \/ r \in posting
       \/ pendingAskUserQuestions[reqlog[r].sid] = r

\* C2: every permission_request the Hub accepts, and whose session does not
\* end first, gets exactly one permission_response, written to the
\* connection it arrived on: never two, never to another connection, and
\* never none (while none is written yet the request can still be answered).
C2_ExactlyOneResponseToOrigin ==
    \A r \in ReqIds :
        (reqlog[r].conn # 0 /\ ~reqlog[r].ended) =>
            /\ reqlog[r].nResp <= 1
            /\ reqlog[r].nResp = 1 => reqlog[r].to = reqlog[r].conn
            /\ reqlog[r].nResp = 0 => Answerable(r)

\* C9: a permission_request that arrives while its session is in the YOLO
\* set is answered at once with behavior allow, whatever its tool name, and
\* no permission UI is posted for it.
C9_YoloAllowsEveryRequest ==
    \A r \in ReqIds :
        (reqlog[r].conn # 0 /\ reqlog[r].yolo) =>
            /\ reqlog[r].nResp = 1
            /\ reqlog[r].behavior = "allow"
            /\ ~reqlog[r].ui

\* C10: when a session ends, its pending permission requests are cancelled:
\* their entries are dropped from the pending tables and no
\* permission_response is written for them afterwards.
C10_SessionEndCancelsPending ==
    \A r \in ReqIds :
        reqlog[r].ended =>
            /\ pendingPermissions[r] = 0
            /\ statePending[r] = 0
            /\ pendingAskUserQuestions[reqlog[r].sid] # r
            /\ ~reqlog[r].late

\* The table that tracks a pending request by its own id until its decision:
\* the adapter's resolver table for a tool request, the Hub's table of
\* structured questions for an AskUserQuestion request.
TrackedByOwnId(r) ==
    IF reqlog[r].tool = "AskUserQuestion"
    THEN pendingAskUserQuestions[reqlog[r].sid] = r
    ELSE statePending[r] = reqlog[r].sid

\* C11: several permission requests of one session can be pending at the
\* same time; each pending request is tracked under its own request id, so
\* that the decision made for it reaches it, and a later request of the
\* session never replaces or drops an earlier pending one.
C11_EachPendingRequestTrackedByOwnId ==
    \A r \in ReqIds : pendingPermissions[r] # 0 => TrackedByOwnId(r)

\* C12: for each request id at most one decision takes effect: once the
\* first decision for a request id has been written, no further attempt (a
\* second button press, a repeated sendPermissionDecision, a late answer to
\* the structured question) writes anything for that id to any connection.
C12_OneDecisionPerRequestId ==
    [][\A r \in ReqIds :
          reqlog[r].nResp >= 1 =>
              /\ reqlog'[r].nResp = reqlog[r].nResp
              /\ reqlog'[r].to = reqlog[r].to
              /\ reqlog'[r].behavior = reqlog[r].behavior]_vars

\* C12, its case: a decision was written for a request and a further
\* decision attempt for the same id has been made since.
C12_Witness ==
    \E r \in ReqIds : reqlog[r].nResp = 1 /\ reqlog[r].again

\* C13: for a structured-question request no permission_response is written
\* until every one of its NumQuestions sub-questions has an answer; the step
\* that hands the complete answers of a pending request's questions to the
\* Hub writes exactly one permission_response for it, with behavior allow
\* and updatedInput.answers = the answer to question i under the key "i".
C13_ResponseOnLastAnswerWithAllAnswers ==
    [][\A r \in ReqIds :
          /\ reqlog'[r].nResp > reqlog[r].nResp =>
                /\ \A i \in QuestionIndexes : pendingAnswers[r][i] # NoAnswer
                /\ reqlog'[r].nResp = 1
                /\ reqlog'[r].behavior = "allow+answers"
                /\ \A i \in QuestionIndexes :
                      reqlog'[r].answers[toString(i)] = pendingAnswers[r][i]
          /\ (reqlog[r].conn # 0 /\ reqlog[r].nResp = 0
                /\ r \notin submitted /\ r \in submitted') =>
                reqlog'[r].nResp = 1]_vars

\* C14: while a session id is in the reconciling fence, a session_start for
\* that id is ignored by the registry: the session-start handler creates no
\* entry for it and changes no status, so the session is not resurrected.
C14_FencedSessionStartIgnored ==
    [][\A id \in RegIds :
          (/\ id \in reconcilingSessionIds
           /\ startCall[id] = "idle"
           /\ startCall'[id] = "createSession") =>
              entries'[id].status = entries[id].status]_vars

\* The handling of a frame that arrived on connection c has not finished:
\* the handler of one of its session_start frames is at an await.
InFlight(c) ==
    \E o \in 1..Len(objs) : objs[o].conn = c /\ objs[o].stage # "done"

\* C15: the frames of one connection are handled serially, in arrival order:
\* the handling of a frame, with everything it awaits, has finished before
\* the handling of the next frame of that connection starts.
C15_FramesOfOneConnectionSerial ==
    [][\A c \in Conns :
          (\E id \in SessionIds : RecvSessionStart(c, id) \/ RecvSessionEnd(c, id))
              => ~InFlight(c)]_vars

\* Connection c has declared session id: one of its session_start frames
\* carried it.
Declared(c, id) ==
    \E o \in 1..Len(objs) : objs[o].conn = c /\ objs[o].id = id

\* C16: a frame that names a session the connection has not declared does
\* not change that session: a session_end from such a connection leaves the
\* session in the live set, its watcher running, and produces no session-end.
C16_ForeignFrameChangesNothing ==
    [][\A c \in Conns, id \in SessionIds :
          (RecvSessionEnd(c, id) /\ ~Declared(c, id)) =>
              /\ sessions' = sessions
              /\ watching' = watching
              /\ nEnd'[id] = nEnd[id]]_vars

\* C17: within one session the events are emitted in the arrival order of
\* their source records: an event of a later record is never emitted before
\* an event of an earlier one, and the tool-call event of a tool_use id is
\* emitted before the tool-result event of that id.
C17_EventsInArrivalOrder ==
    \A i, j \in 1..Len(out) :
        /\ i < j => out[i].uuid <= out[j].uuid
        /\ (out[i].on = "onToolCall" /\ out[j].on = "onToolResult"
              /\ out[i].id = out[j].id) => i < j

C19_SeenSetBoundedOldestEvicted ==
    [][/\ Cardinality(seenMessages') <= MAX_SEEN_MESSAGES
       /\ (Len(seenMessagesOrder) = MAX_SEEN_MESSAGES
             /\ seenMessages' # seenMessages) =>
             LET oldest == seenMessagesOrder[1] IN
                \/ oldest \notin seenMessages'
                \/ /\ oldest \in MessageKeys
                   /\ emitted'[oldest] = emitted[oldest] + 1
       /\ \A k \in MessageKeys :
             (k \notin seenMessages /\ arrived'[k] # arrived[k]) =>
                 /\ k \in seenMessages'
                 /\ emitted'[k] = emitted[k] + 1]_vars

\* C19, its case: the set is full, a message key has been evicted from it
\* as the oldest entry, has arrived again and was inserted and emitted a
\* second time.
C19_Witness ==
    \E k \in MessageKeys :
        /\ Cardinality(seenMessages) = MAX_SEEN_MESSAGES
        /\ evicted[k] = 1
        /\ emitted[k] = 2
        /\ k \in seenMessages

\* C20: while the runner of a session is connected (the runner process
\* exists, the session is in the Hub's table of live sessions and its
\* session-start handling has completed) the registry entry of the session
\* is never 'stopped' or 'orphaned', whatever pid the entry records.
C20_ConnectedSessionNeverMarkedDead ==
    \A id \in RegIds :
        (id \in live /\ alive[id] /\ startCall[id] = "idle") =>
            entries[id].status \notin TerminalStatus

\* C21: for the session id at most one tailer is active at any time: the
\* only session object whose watcher or poll is active is the one bound in
\* this.sessions, so a second session_start stops the tailer of the earlier
\* binding.
C21_AtMostOneTailerPerSessionId ==
    \A o \in tailing : o = inSessions

\* C22: once session-end has been emitted for the session (it was started
\* and is no longer in this.sessions), no further event is emitted for it.
C22_NoEventAfterSessionEnd ==
    [][(inSessions = 0 /\ Len(tailers) > 0) => out' = out]_vars

\* C30: for the session at most one run of processJsonl is active at a
\* time, and no line of the event log is emitted twice.
C30_OneTailRunPerSession ==
    /\ Cardinality({o \in 1..Len(tailers) : tailers[o].processing}) <= 1
    /\ \A i, j \in 1..Len(out) : i # j => out[i].uuid # out[j].uuid

\* C23: a structured-question request whose frame has arrived and whose
\* questions the user has answered completely (the answers were handed on
\* and no answer handler is still running) has received its
\* permission_response, whichever of the tool-call record and the frame
\* arrived first.
C23_AnsweredQuestionGetsResponse ==
    \A r \in ReqIds :
        (/\ reqlog[r].conn # 0
         /\ r \in submitted
         /\ \A t \in ToolUseIds : trying[t] = 0) =>
            reqlog[r].nResp >= 1

\* The status the transition table of the health check gives entry e of
\* session id: a process counts as dead when isProcessAlive says so.
C24Target(e, id) ==
    LET dead == ~isProcessAlive(e.pid) IN
    CASE e.status = "starting" /\ dead -> "stopped"
      [] e.status = "starting" /\ ~dead /\ e.age >= AgeOver30s /\ id \notin live
            -> "orphaned"
      [] e.status = "running" /\ dead -> "orphaned"
      [] e.status = "stopping" /\ dead -> "stopped"
      [] OTHER -> e.status

\* C24: a health-check pass changes the status of a non-terminal entry only
\* by the table: starting -> stopped if dead; starting -> orphaned if alive,
\* older than 30 s and not connected; running -> orphaned if dead; stopping
\* -> stopped if dead; every other non-terminal entry keeps its status.  (An
\* entry the pass has just orphaned may go on to stopped by the auto-cleanup
\* of the same pass, or be dropped by its retention filter.)
C24_HealthCheckTransitions ==
    [][(\E shouldAutoCleanup \in BOOLEAN : RunHealthCheck(shouldAutoCleanup)) =>
          \A id \in RegIds :
              entries[id].status \in NonTerminalStatus =>
                  LET target == C24Target(entries[id], id) IN
                  \/ entries'[id].status = target
                  \/ /\ target = "orphaned"
                     /\ isProcessAlive(entries[id].pid)
                     /\ entries'[id].status = "stopped"
                  \/ /\ target \in TerminalStatus
                     /\ entries'[id].status = "absent"]_vars

\* C24, its cases: a pass has just moved a starting entry whose process is
\* alive to orphaned, and a stopping entry whose process is dead to stopped.
C24_Witness ==
    \E id \in RegIds :
        /\ statusCallbacks \in {{<<id, "starting", "orphaned">>},
                                {<<id, "stopping", "stopped">>}}
        /\ entries[id].status \in TerminalStatus

\* C25: a kill sends its signals in the order interrupt, terminate, kill, the
\* later two only to a process that is still alive after the wait; a force
\* kill sends the kill signal alone; and the call returns success only when
\* the session's process is no longer alive.
C25_KillSequenceThenDead ==
    [][\A id \in RegIds :
          (killCall[id].pc # "idle" /\ killCall'[id].pc # killCall[id].pc) =>
              /\ killCall[id].pc = "saved" =>
                    /\ sent' \subseteq {<<entries[id].pid, "SIGINT">>,
                                        <<entries[id].pid, "SIGKILL">>}
                    /\ Cardinality(sent') <= 1
                    /\ <<entries[id].pid, "SIGINT">> \in sent' =>
                          killCall'[id].pc = "waitInt"
              /\ killCall[id].pc = "waitInt" =>
                    /\ sent' \subseteq {<<entries[id].pid, "SIGTERM">>}
                    /\ sent' # {} => isProcessAlive(entries[id].pid)
              /\ killCall[id].pc = "waitTerm" =>
                    /\ sent' \subseteq {<<entries[id].pid, "SIGKILL">>}
                    /\ sent' # {} => isProcessAlive(entries[id].pid)
              /\ killCall'[id].pc = "idle" => ~alive'[id]]_vars

\* C26: no signal is ever sent to pid 0.
C26_NoSignalToPidZero ==
    \A x \in sent : x[1] # 0

\* C27: a health-check pass with auto-cleanup-orphans set sends the kill
\* signal to the process of every entry that is orphaned (before the pass or
\* by it) and still alive, and leaves the entry stopped (or drops it, when it
\* is past retention); a pass with the flag unset sends no signal.
C27_AutoCleanupKillsLiveOrphans ==
    [][/\ RunHealthCheck(TRUE) =>
            \A id \in RegIds :
                (/\ \/ entries[id].status = "orphaned"
                    \/ /\ entries[id].status \in NonTerminalStatus
                       /\ C24Target(entries[id], id) = "orphaned"
                 /\ isProcessAlive(entries[id].pid)) =>
                    /\ <<entries[id].pid, "SIGKILL">> \in sent'
                    /\ \/ entries'[id].status = "stopped"
                       \/ /\ entries'[id].status = "absent"
                          /\ entries[id].age >= AgeOver24h
       /\ RunHealthCheck(FALSE) => sent' = {}]_vars

\* C27, its case: a pass has just killed the live process of an orphaned
\* entry and marked the entry stopped.
C27_Witness ==
    \E id \in RegIds :
        /\ <<entries[id].pid, "SIGKILL">> \in sent
        /\ entries[id].status = "stopped"
        /\ alive[id]

\* C28: a registry record is removed only when its status is stopped or
\* orphaned and it is past the 24 h retention window; a record in starting,
\* running or stopping is never removed.
C28_RemovedOnlyTerminalAndRetained ==
    [][\A id \in RegIds :
          (entries[id].status # "absent" /\ entries'[id].status = "absent") =>
              /\ entries[id].status \in TerminalStatus
              /\ entries[id].age >= AgeOver24h]_vars

\* The previous statuses the status-change callback was called with for
\* session id in the last step.
C29CalledWith(cb, id) == {x[2] : x \in {y \in cb : y[1] = id}}

\* C29: a step that changes the status of a registry entry calls the
\* status-change callback for it, with the status the entry had before, and a
\* step that leaves an entry's status as it was does not call it.  A kill()
\* counts as one change, from the status it found to the one it leaves, made
\* when it returns; a step that removes an entry may have changed its status
\* first.
C29_CallbackOncePerStatusChange ==
    [][\A id \in RegIds :
          CASE entries[id].status = "absent" ->
                  C29CalledWith(statusCallbacks', id) = {}
            [] entries[id].status # "absent" /\ entries'[id].status = "absent" ->
                  C29CalledWith(statusCallbacks', id) \subseteq {entries[id].status}
            [] killCall'[id].pc # "idle" -> TRUE
            [] killCall[id].pc # "idle" /\ killCall'[id].pc = "idle" ->
                  entries'[id].status # killCall[id].oldStatus =>
                      C29CalledWith(statusCallbacks', id) = {killCall[id].oldStatus}
            [] OTHER ->
                  IF entries'[id].status # entries[id].status
                  THEN C29CalledWith(statusCallbacks', id) = {entries[id].status}
                  ELSE C29CalledWith(statusCallbacks', id) = {}]_vars

\* The complete, non-empty lines of the file that start at or after byte
\* offset o.
LinesFrom(o) ==
    LET parts == Split(Decode(SubSeq(file, o + 1, Len(file))))
    IN {parts[i] : i \in 1..(Len(parts) - 1)} \ {<<>>}

\* C31: for a session that started at the start of a line, once the tailer
\* is idle and has nothing left to read (the saved offset has reached the
\* end of the file), every complete line appended since the session started
\* has been handed on: no line is skipped for good.
C31_NoLineSkippedForGood ==
    (/\ tailPc = "idle"
     /\ AtLineStart(startSize)
     /\ lastProcessedSize >= Len(file)) =>
        LinesFrom(startSize) \subseteq handedOn

\* C32: when no chat thread can be resolved for a permission request the
\* adapter's handler is waiting on (the session has no live binding, no
\* active session matches, no mapping is persisted), sendToThread() ends at
\* the end of its fallback chain whatever else its lookups would give, and
\* a request whose chain ended there is answered, once and on its own
\* connection, with behavior allow and without buttons.
C32_NoThreadAnsweredAllow ==
    /\ \A fetched \in Fetches, refetched \in Fetches,
          fetchedPersisted \in Fetches, sendFails \in BOOLEAN :
           sendToThread("none", fetched, refetched, FALSE, fetchedPersisted,
                        sendFails) = "nothread"
    /\ "nothread" \in SendToThreadOutcomes
    /\ \A r \in ReqIds :
           reqlog[r].settled = "nothread"
           => /\ reqlog[r].nResp = 1
              /\ reqlog[r].behavior = "allow"
              /\ reqlog[r].to = reqlog[r].conn
              /\ ~reqlog[r].ui

\* A request was answered allow at the end of the fallback chain, without
\* a YOLO flag and without buttons.
C32_Witness ==
    \E r \in ReqIds :
        /\ reqlog[r].settled = "nothread"
        /\ ~reqlog[r].yolo
        /\ reqlog[r].nResp = 1
        /\ reqlog[r].behavior = "allow"

\* C33: when the adapter's permission handler rejects, exactly one
\* permission_response is written for the request, on the request's
\* connection, with behavior deny and message "Error processing request",
\* and none follows.
C33_HandlerErrorOneDeny ==
    \A r \in ReqIds :
        reqlog[r].settled = "rejected"
        => /\ reqlog[r].nResp = 1
           /\ reqlog[r].behavior = "deny"
           /\ reqlog[r].message = "Error processing request"
           /\ reqlog[r].to = reqlog[r].conn

\* A handler rejected and its request got the deny; a later step has
\* closed the request's connection.
C33_Witness ==
    \E r \in ReqIds :
        /\ reqlog[r].settled = "rejected"
        /\ reqlog[r].nResp = 1
        /\ statePending[r] # 0
        /\ conn[reqlog[r].conn] = "closed"

\* C34: a sendInput call whose write of the input frame fails reports
\* failure after tearing the binding down, so every call that returned true
\* has put its text frame on the connection of its session.
C34_FailedWriteReportsFailure ==
    \A k \in 1..Len(calls) : calls[k].first > 0

\* C35: of two sendInput calls on the same session whose text frames the
\* connection received, the earlier call's carriage-return frame is on the
\* connection before the later call's text frame.
C35_FirstCallCompleteBeforeSecond ==
    \A j \in 1..Len(calls), k \in 1..Len(calls) :
        (/\ j < k
         /\ calls[j].socket = calls[k].socket
         /\ calls[j].first > 0
         /\ calls[k].first > 0)
        => /\ calls[j].second > 0
           /\ calls[j].second < calls[k].first

\* C36: a line of the event log that is taken as a user message leaves the
\* session's status running, one taken as an assistant message leaves it
\* idle, and onSessionStatus is called, once and with the new status,
\* exactly when the status differs from the one before the line; a line
\* that is not taken as a message changes no status and makes no call.
C36_StatusFollowsLastMessage ==
    [][\A line \in Lines :
          TailLine(line) =>
             IF hash(line) \in seenMessages \/ Trim(line.text) = <<>> \/ line.old
             THEN sessionStatus' = sessionStatus /\ statusCalls' = <<>>
             ELSE /\ sessionStatus' = (IF line.role = "user" THEN "running" ELSE "idle")
                  /\ statusCalls' = (IF sessionStatus' # sessionStatus
                                     THEN <<sessionStatus'>> ELSE <<>>)]_vars

\* The status went to idle and came back to running, with a call each time.
C36_Witness ==
    /\ sessionStatus = "running"
    /\ statusCalls = <<"running">>

\* C37: with maxConcurrentSessions set, start selections never bring the
\* number of registry entries in status starting or running above it.
C37_StartsKeepTheLimit ==
    Cardinality(getAllRunning(entries)) <= MaxConcurrentSessions

\* C38: at every instant, a crash in the middle of a write included, each
\* of the registry file, the mapping file and the settings file holds a
\* complete document: the previous one or the new one.
C38_FilesAlwaysComplete ==
    \A f \in SavedFiles : disk[f] \in CompleteDocuments

\* C39: once close() has returned, the runner writes no further
\* session_start frame and creates no further socket, whatever was pending
\* when close() was called.
C39_NothingAfterClose ==
    [][closed => /\ nSessionStart' = nSessionStart
                 /\ Len(sockState') = Len(sockState)]_vars

\* close() was called while a connection attempt was pending, and the
\* attempt has since succeeded.
C39_Witness ==
    /\ closed
    /\ \E s \in 1..Len(sockState) : sockState[s] = "open"
    /\ nSessionStart = 0

=============================================================================
